---- MODULE Spec2Model ----
(***************************************************************************)
(* Model of the x402 provider extension                                    *)
(* (packages/coding-agent/examples/extensions/custom-provider-x402).       *)
(*                                                                         *)
(* Part 1: the fetch patcher (createFetchPatcher) and streamX402, which    *)
(*         substitute the process-wide fetch while streams are in flight.  *)
(* Part 2: the payment-aware fetch with the router-config resolver and the *)
(*         permit cache it drives.                                         *)
(***************************************************************************)
EXTENDS Integers, Sequences, FiniteSets, TLC

\* ------------------------------------------------------------------ bounds
\* Number of release closures acquire() hands out in one run.
MaxHandles == 3
\* How many times one release closure is called.
MaxReleaseCalls == 2

Handles == 1..MaxHandles

\* ------------------------------------------------------- fetch identities
\* The values globalThis.fetch takes: the fetch in place at start-up, the
\* fetchImpl handed to createFetchPatcher, and a fetch another component
\* installs.
NativeFetch == "native"
FetchImpl == "x402"
OtherFetch == "other"
Null == "null"

VARIABLES
    globalFetch,     \* globalThis.fetch
    activeStreams,   \* createFetchPatcher: let activeStreams
    originalFetch,   \* createFetchPatcher: let originalFetch (Null when unset)
    released,        \* per closure: "none" (not created), "false", "true"
    installs,        \* number of executions of  globalThis.fetch = fetchImpl
    restores,        \* number of executions of  globalThis.fetch = originalFetch
    relCalls,        \* per closure: number of times it has been called
    streamPc,        \* per streamX402 call: "none", "streaming", "settled", "threw"
    startedHeld,     \* per streamX402 call: was its handle held when the stream started
    foreignSaved,    \* the fetch another component captured before patching
    foreignWrote     \* has another component ever written globalThis.fetch

patcherVars == <<globalFetch, activeStreams, originalFetch, released, installs, restores>>
streamVars == <<relCalls, streamPc, startedHeld>>
foreignVars == <<foreignSaved, foreignWrote>>
installerVars == <<patcherVars, streamVars, foreignVars>>

VARIABLES
    staticSig,       \* registerX402Provider: X402_PAYMENT_SIGNATURE is non-empty
    nowMs,           \* Date.now()
    cached,          \* createRouterConfigResolver: let cached (NoConfig when null)
    cachedAtMs,      \* createRouterConfigResolver: let cachedAtMs
    configFetches,   \* number of GET /v1/config calls issued
    entry,           \* PermitCache: key -> cached permit (NoPermit when absent)
    ledger,          \* PermitCache: key -> spend attributed to the cached permit
    inflight,        \* PermitCache: key -> request whose sign call is pending (0: none)
    signCalls,       \* number of sign function invocations
    spends,          \* PermitCache: key -> amounts recorded against the cached permit
    reqs             \* per logical request through the payment-aware fetch

resolverVars == <<cached, cachedAtMs, configFetches>>
cacheVars == <<entry, ledger, inflight, signCalls, spends>>
paymentVars == <<staticSig, nowMs, resolverVars, cacheVars, reqs>>

VARIABLES
    signer,          \* one signPermitWithViem() call: its arguments, position and locals
    envSource,       \* the EnvSource handed to registerX402Provider
    registration,    \* registerX402Provider: its position and what it has built
    timer,           \* createTickLoop: let timer (NoTimer when null)
    liveTimers,      \* intervals set with setInterval and not cleared
    timersMade,      \* number of setInterval calls so far
    onErrorCalls,    \* number of invocations of options.onError
    lastError,       \* the argument of the latest options.onError call
    running,         \* createTickLoop: let running
    ticking,         \* createTickLoop: let ticking
    count,           \* createTickLoop: let count
    pendingTicks,    \* onTick() promises not yet settled
    onTickCalls,     \* number of invocations of options.onTick
    skippedTicks,    \* number of tick() calls that returned at the mutex
    loopCalls        \* number of start(), stop() and interval firings so far

signerVars == <<signer>>
envVars == <<envSource, registration>>
loopVars == <<timer, liveTimers, timersMade, running, ticking, count, pendingTicks,
             onTickCalls, skippedTicks, onErrorCalls, lastError, loopCalls>>
restVars == <<signerVars, envVars, loopVars>>

\* The patcher's closure state together with globalThis.fetch, as one record,
\* so that acquire and release can be applied one after the other inside one
\* synchronous handler.
PatcherState ==
    [globalFetch |-> globalFetch, activeStreams |-> activeStreams,
     originalFetch |-> originalFetch, released |-> released,
     installs |-> installs, restores |-> restores]

Commit(s) ==
    /\ globalFetch' = s.globalFetch
    /\ activeStreams' = s.activeStreams
    /\ originalFetch' = s.originalFetch
    /\ released' = s.released
    /\ installs' = s.installs
    /\ restores' = s.restores

\* ---------------------------------------------------------------- acquire
\* Mutant: captures and installs on every acquire, not only at count 0.
acquire_always(s, h) ==
    LET s1 == [s EXCEPT !.originalFetch = s.globalFetch,
                        !.globalFetch = FetchImpl,
                        !.installs = @ + 1]
    IN [s1 EXCEPT !.activeStreams = @ + 1, !.released[h] = "false"]

\* acquire(): index.ts 78-85. h names the release closure it returns.
acquire(s, h) ==
    LET s1 == IF s.activeStreams = 0
              THEN [s EXCEPT !.originalFetch = s.globalFetch,
                             !.globalFetch = FetchImpl,
                             !.installs = @ + 1]
              ELSE s
    IN [s1 EXCEPT !.activeStreams = @ + 1, !.released[h] = "false"]

\* ---------------------------------------------------------------- release
\* Mutant: restores on every release, whatever the count.
release_restoreAlways(s, h) ==
    IF s.released[h] = "true" THEN s
    ELSE LET s1 == [s EXCEPT !.released[h] = "true", !.activeStreams = @ - 1]
         IN IF s1.originalFetch # Null
            THEN IF s1.globalFetch = FetchImpl
                 THEN [s1 EXCEPT !.globalFetch = s1.originalFetch,
                                 !.restores = @ + 1,
                                 !.originalFetch = Null]
                 ELSE [s1 EXCEPT !.originalFetch = Null]
            ELSE s1

\* Mutant: forgets the original without writing it back.
release_neverRestore(s, h) ==
    IF s.released[h] = "true" THEN s
    ELSE LET s1 == [s EXCEPT !.released[h] = "true", !.activeStreams = @ - 1]
         IN IF s1.activeStreams = 0 /\ s1.originalFetch # Null
            THEN [s1 EXCEPT !.originalFetch = Null]
            ELSE s1

\* Mutant: no  if (released) return  guard.
release_noGuard(s, h) ==
    LET s1 == [s EXCEPT !.released[h] = "true", !.activeStreams = @ - 1]
    IN IF s1.activeStreams = 0 /\ s1.originalFetch # Null
       THEN IF s1.globalFetch = FetchImpl
            THEN [s1 EXCEPT !.globalFetch = s1.originalFetch,
                            !.restores = @ + 1,
                            !.originalFetch = Null]
            ELSE [s1 EXCEPT !.originalFetch = Null]
       ELSE s1

\* Mutant: no  globalThis.fetch === fetchImpl  check before restoring.
release_clobber(s, h) ==
    IF s.released[h] = "true" THEN s
    ELSE LET s1 == [s EXCEPT !.released[h] = "true", !.activeStreams = @ - 1]
         IN IF s1.activeStreams = 0 /\ s1.originalFetch # Null
            THEN [s1 EXCEPT !.globalFetch = s1.originalFetch,
                            !.restores = @ + 1,
                            !.originalFetch = Null]
            ELSE s1

\* Mutant: restores at count 0 but keeps the captured original.
release_keepOriginal(s, h) ==
    IF s.released[h] = "true" THEN s
    ELSE LET s1 == [s EXCEPT !.released[h] = "true", !.activeStreams = @ - 1]
         IN IF s1.activeStreams = 0 /\ s1.originalFetch # Null
            THEN IF s1.globalFetch = FetchImpl
                 THEN [s1 EXCEPT !.globalFetch = s1.originalFetch,
                                 !.restores = @ + 1]
                 ELSE s1
            ELSE s1

\* The closure acquire() returns: index.ts 87-98.
release(s, h) ==
    IF s.released[h] = "true" THEN s
    ELSE LET s1 == [s EXCEPT !.released[h] = "true", !.activeStreams = @ - 1]
         IN IF s1.activeStreams = 0 /\ s1.originalFetch # Null
            THEN IF s1.globalFetch = FetchImpl
                 THEN [s1 EXCEPT !.globalFetch = s1.originalFetch,
                                 !.restores = @ + 1,
                                 !.originalFetch = Null]
                 ELSE [s1 EXCEPT !.originalFetch = Null]
            ELSE s1

\* ------------------------------------------------- direct patcher callers
\* A caller invokes acquire() and keeps the closure h.
Acquire(h) ==
    /\ released[h] = "none"
    /\ Commit(acquire(PatcherState, h))
    /\ UNCHANGED <<streamVars, foreignVars, paymentVars, restVars>>

\* A caller invokes the closure h it holds (again, possibly).
Release(h) ==
    /\ released[h] # "none"
    /\ streamPc[h] = "none"
    /\ relCalls[h] < MaxReleaseCalls
    /\ Commit(release(PatcherState, h))
    /\ relCalls' = [relCalls EXCEPT ![h] = @ + 1]
    /\ UNCHANGED <<streamPc, startedHeld, foreignVars, paymentVars, restVars>>

\* ------------------------------------------------------------- streamX402
\* Mutant: the catch block rethrows without releasing.
StreamX402_leakOnThrow(h, startThrows) ==
    /\ released[h] = "none"
    /\ LET s1 == acquire(PatcherState, h)
       IN /\ startedHeld' = [startedHeld EXCEPT ![h] = (s1.released[h] = "false")]
          /\ Commit(s1)
          /\ streamPc' = [streamPc EXCEPT ![h] = IF startThrows THEN "threw" ELSE "streaming"]
          /\ UNCHANGED relCalls
    /\ UNCHANGED <<foreignVars, paymentVars, restVars>>

\* streamX402 up to its return or throw: index.ts 140-154.  The handler is
\* synchronous: acquire, start the stream, and on a synchronous throw
\* release and rethrow.
StreamX402(h, startThrows) ==
    /\ released[h] = "none"
    /\ LET s1 == acquire(PatcherState, h)
       IN /\ startedHeld' = [startedHeld EXCEPT ![h] = (s1.released[h] = "false")]
          /\ IF startThrows
             THEN /\ Commit(release(s1, h))
                  /\ relCalls' = [relCalls EXCEPT ![h] = @ + 1]
                  /\ streamPc' = [streamPc EXCEPT ![h] = "threw"]
             ELSE /\ Commit(s1)
                  /\ UNCHANGED relCalls
                  /\ streamPc' = [streamPc EXCEPT ![h] = "streaming"]
    /\ UNCHANGED <<foreignVars, paymentVars, restVars>>

\* stream.result() settles and the finally callback runs: index.ts 147-149.
StreamSettle(h, fulfilled) ==
    /\ streamPc[h] = "streaming"
    /\ Commit(release(PatcherState, h))
    /\ relCalls' = [relCalls EXCEPT ![h] = @ + 1]
    /\ streamPc' = [streamPc EXCEPT ![h] = "settled"]
    /\ UNCHANGED <<startedHeld, foreignVars, paymentVars, restVars>>

\* ------------------------------------------------------ another component
\* Another component patches globalThis.fetch, keeping what it replaced ...
ForeignInstall ==
    /\ foreignSaved = Null
    /\ foreignSaved' = globalFetch
    /\ globalFetch' = OtherFetch
    /\ foreignWrote' = TRUE
    /\ UNCHANGED <<activeStreams, originalFetch, released, installs, restores, streamVars, paymentVars, restVars>>

\* ... and later puts back what it replaced.
ForeignRestore ==
    /\ foreignSaved # Null
    /\ globalFetch' = foreignSaved
    /\ foreignSaved' = Null
    /\ foreignWrote' = TRUE
    /\ UNCHANGED <<activeStreams, originalFetch, released, installs, restores, streamVars, paymentVars, restVars>>

\* The other component is itself a createFetchPatcher(OtherFetch), used by
\* one caller at a time: ForeignInstall is its acquire() at count 0, with
\* foreignSaved its originalFetch, and this is the release closure of that
\* handle (index.ts 87-98): at count 0 it restores only when the
\* process-wide fetch is still its own fetchImpl, and forgets the original
\* either way.
OtherRelease ==
    /\ foreignSaved # Null
    /\ globalFetch' = IF globalFetch = OtherFetch THEN foreignSaved ELSE globalFetch
    /\ foreignSaved' = Null
    /\ foreignWrote' = TRUE
    /\ UNCHANGED <<activeStreams, originalFetch, released, installs, restores, streamVars, paymentVars, restVars>>

\* ========================================================================
\* Part 2: payment-aware fetch, router-config resolver, permit cache.
\* ========================================================================

\* Number of logical requests issued through the payment-aware fetch.
MaxRequests == 2
\* Number of clock steps.
MaxTicks == 1

Requests == 1..MaxRequests

\* createRouterConfigResolver: const CACHE_TTL_MS = 30_000
CACHE_TTL_MS == 30000
\* sign-permit.ts: const DEFAULT_VALIDITY_SECONDS = 3600
DEFAULT_VALIDITY_SECONDS == 3600
\* env.ts: const DEFAULT_PERMIT_CAP = "10000000"
DEFAULT_PERMIT_CAP == 10000000
\* The clock advances in steps of one TTL.
TickMs == CACHE_TTL_MS

DEFAULT_NETWORK == "eip155:8453"
DEFAULT_PAYMENT_HEADER == "PAYMENT-SIGNATURE"
\* The value of X402_PAYMENT_SIGNATURE when one is configured.
StaticPaymentSignature == "signed-payment-payload"

\* Response statuses the router answers with.
Statuses == {200, 401, 402, 500}

\* ----------------------------------------------------------- RouterConfig
\* obj is the identity of the config object: 0 for none, otherwise the number
\* of the resolver call that created it.
NoConfig == [obj |-> 0, network |-> "", asset |-> "", payTo |-> "", paymentHeader |-> ""]

\* normalizeRouterConfig(data, defaults): the router's metadata when data
\* carries it, the defaults with placeholder asset/payTo for {} .
normalizeRouterConfig(data) ==
    IF data = "router"
    THEN [obj |-> 0, network |-> DEFAULT_NETWORK, asset |-> "0xasset",
          payTo |-> "0xpayTo", paymentHeader |-> DEFAULT_PAYMENT_HEADER]
    ELSE [obj |-> 0, network |-> DEFAULT_NETWORK, asset |-> "",
          payTo |-> "", paymentHeader |-> DEFAULT_PAYMENT_HEADER]

\* The permit-cache key network:asset:payTo.
KeyOf(c) == <<c.network, c.asset, c.payTo>>

Keys == {KeyOf(normalizeRouterConfig("router")), KeyOf(normalizeRouterConfig("empty"))}

\* ----------------------------------------------------------- CachedPermit
NoPermit == [paymentSig |-> 0, deadline |-> 0, maxValue |-> 0,
             network |-> "", asset |-> "", payTo |-> ""]

\* Mutant: the permit's payTo is taken from the wrong config field.
signedPermit_wrongPayTo(c, signNo, now) ==
    [paymentSig |-> signNo,
     deadline |-> (now \div 1000) + DEFAULT_VALIDITY_SECONDS,
     maxValue |-> DEFAULT_PERMIT_CAP,
     network |-> c.network, asset |-> c.asset, payTo |-> c.asset]

\* The CachedPermit signPermitWithViem returns: sign-permit.ts 116, 162-170.
\* signNo stands for the signed payload (one per sign call).
signedPermit(c, signNo, now) ==
    [paymentSig |-> signNo,
     deadline |-> (now \div 1000) + DEFAULT_VALIDITY_SECONDS,
     maxValue |-> DEFAULT_PERMIT_CAP,
     network |-> c.network, asset |-> c.asset, payTo |-> c.payTo]

\* --------------------------------------------------------------- requests
\* pc: "idle", "first" (first network call pending), "configFetch"
\* (GET /v1/config pending), "signing" (own sign call pending), "awaitSign"
\* (joined another request's sign call), "second" (retry pending), "done".
\* status is the last response received, result the response returned; hdr1
\* is the payment header value of the first attempt, hdr2Name and hdr2 the
\* payment header the retry adds.
NewRequest ==
    [pc |-> "idle", netCalls |-> 0, status |-> 0, result |-> 0,
     cfg |-> NoConfig, permit |-> NoPermit, hdr1 |-> "", hdr2Name |-> "",
     hdr2 |-> 0, log |-> <<>>, startMs |-> 0, signNo |-> 0, via |-> {}]

\* index.ts 105: const baseFetch = globalThis.fetch.bind(globalThis), taken
\* when the provider is registered, which is before any acquire().
baseFetch == NativeFetch

\* The function a network call of the payment-aware fetch or of the
\* resolver is made with: options.baseFetch (index.ts 50, 108-115).
networkFetch_global == globalFetch

networkFetch == baseFetch

\* The shared state the payment-aware fetch works on, as one record, so that
\* the calls one handler makes before it next awaits compose.
PaymentState ==
    [reqs |-> reqs, cached |-> cached, cachedAtMs |-> cachedAtMs,
     configFetches |-> configFetches, entry |-> entry, ledger |-> ledger,
     inflight |-> inflight, signCalls |-> signCalls, spends |-> spends]

CommitPayment(ps) ==
    /\ reqs' = ps.reqs
    /\ cached' = ps.cached
    /\ cachedAtMs' = ps.cachedAtMs
    /\ configFetches' = ps.configFetches
    /\ entry' = ps.entry
    /\ ledger' = ps.ledger
    /\ inflight' = ps.inflight
    /\ signCalls' = ps.signCalls
    /\ spends' = ps.spends

\* The request returns st to its caller and its locals go out of scope; what
\* the caller and the network saw of it stays.
Returned(q, st) ==
    [NewRequest EXCEPT !.pc = "done", !.result = st, !.status = q.status,
                       !.netCalls = q.netCalls, !.hdr1 = q.hdr1, !.log = q.log,
                       !.via = q.via]

\* The payment-aware fetch retries on these statuses only.
PaymentRequired(st) == st \in {401, 402}

\* The request is re-issued through baseFetch with the configured payment
\* header set to the permit's paymentSig.
retried(q, p) ==
    [q EXCEPT !.pc = "second", !.netCalls = @ + 1, !.permit = p,
              !.hdr2Name = q.cfg.paymentHeader, !.hdr2 = p.paymentSig,
              !.log = @ \o <<"permit", "retry">>,
              !.via = @ \cup {networkFetch}]

\* Mutant: the spend recorded against the permit is not looked at.
permitValid_ignoresLedger(ps, k, now) ==
    /\ ps.entry[k] # NoPermit
    /\ (now \div 1000) < ps.entry[k].deadline

\* PermitCache: a cached permit is reusable while unexpired and unexhausted.
permitValid(ps, k, now) ==
    /\ ps.entry[k] # NoPermit
    /\ (now \div 1000) < ps.entry[k].deadline
    /\ ps.ledger[k] < ps.entry[k].maxValue

\* Mutant: a caller that finds a sign call pending does not wait for it and
\* goes on with whatever the cache holds.
getPermit_speculative(ps, r, now) ==
    LET q == ps.reqs[r]
        k == KeyOf(q.cfg)
    IN IF permitValid(ps, k, now) \/ ps.inflight[k] # 0
       THEN [ps EXCEPT !.reqs[r] = retried(q, ps.entry[k])]
       ELSE [ps EXCEPT !.reqs[r] = [q EXCEPT !.pc = "signing",
                                             !.signNo = ps.signCalls + 1,
                                             !.log = Append(@, "sign")],
                       !.inflight[k] = r,
                       !.signCalls = @ + 1]

\* Mutant: every caller that misses signs, whether or not a sign call is
\* pending for the key.
getPermit_noJoin(ps, r, now) ==
    LET q == ps.reqs[r]
        k == KeyOf(q.cfg)
    IN IF permitValid(ps, k, now)
       THEN [ps EXCEPT !.reqs[r] = retried(q, ps.entry[k])]
       ELSE [ps EXCEPT !.reqs[r] = [q EXCEPT !.pc = "signing",
                                             !.signNo = ps.signCalls + 1,
                                             !.log = Append(@, "sign")],
                       !.inflight[k] = r,
                       !.signCalls = @ + 1]

\* Mutant: one lock for the whole cache: a caller waits while a sign call is
\* pending for any key.
getPermit_globalLock(ps, r, now) ==
    LET q == ps.reqs[r]
        k == KeyOf(q.cfg)
    IN IF \E j \in Keys : ps.inflight[j] # 0
       THEN [ps EXCEPT !.reqs[r] = [q EXCEPT !.pc = "awaitSign"]]
       ELSE IF permitValid(ps, k, now)
       THEN [ps EXCEPT !.reqs[r] = retried(q, ps.entry[k])]
       ELSE [ps EXCEPT !.reqs[r] = [q EXCEPT !.pc = "signing",
                                             !.signNo = ps.signCalls + 1,
                                             !.log = Append(@, "sign")],
                       !.inflight[k] = r,
                       !.signCalls = @ + 1]

\* permitCache.getPermit(key, signFn) as called for request r, up to the
\* next await: a valid cached permit is returned and the retry goes out;
\* otherwise r joins the sign call pending for the key, or starts one.
getPermit(ps, r, now) ==
    LET q == ps.reqs[r]
        k == KeyOf(q.cfg)
    IN IF permitValid(ps, k, now)
       THEN [ps EXCEPT !.reqs[r] = retried(q, ps.entry[k])]
       ELSE IF ps.inflight[k] # 0
       THEN [ps EXCEPT !.reqs[r] = [q EXCEPT !.pc = "awaitSign"]]
       ELSE [ps EXCEPT !.reqs[r] = [q EXCEPT !.pc = "signing",
                                             !.signNo = ps.signCalls + 1,
                                             !.log = Append(@, "sign")],
                       !.inflight[k] = r,
                       !.signCalls = @ + 1]

\* resolveRouterConfig() has returned c to request r.
haveConfig(ps, r, c, now) ==
    getPermit([ps EXCEPT !.reqs[r] = [@ EXCEPT !.cfg = c, !.log = Append(@, "resolve")]],
              r, now)

\* createRouterConfigResolver: the cache test of index.ts 36.
resolveFresh(c, at, now) == c # NoConfig /\ now - at < CACHE_TTL_MS

\* resolveRouterConfig() as called for request r: index.ts 35-50.  A fresh
\* cached config is returned at once; otherwise GET /v1/config goes out.
resolveRouterConfig(ps, r, now) ==
    IF resolveFresh(ps.cached, ps.cachedAtMs, now)
    THEN haveConfig([ps EXCEPT !.reqs[r].startMs = now], r, ps.cached, now)
    ELSE [ps EXCEPT !.reqs[r] = [@ EXCEPT !.pc = "configFetch", !.startMs = now,
                                          !.via = @ \cup {networkFetch}],
                    !.configFetches = @ + 1]

\* A logical request enters the payment-aware fetch, which issues it through
\* baseFetch.  In static mode the provider's headers (index.ts 158-163, 170)
\* already carry the payment header.  Requests are interchangeable: they
\* start in the order of their numbers.
X402FetchCall(r) ==
    /\ reqs[r].pc = "idle"
    /\ \A q \in Requests : q < r => reqs[q].pc # "idle"
    /\ reqs' = [reqs EXCEPT ![r] =
                  [@ EXCEPT !.pc = "first",
                            !.netCalls = 1,
                            !.hdr1 = IF staticSig THEN StaticPaymentSignature ELSE "",
                            !.log = <<"request">>,
                            !.via = {networkFetch}]]
    /\ UNCHANGED <<installerVars, restVars, staticSig, nowMs, resolverVars, cacheVars>>

\* Mutant: every non-2xx first response takes the payment path.
FirstResponse_anyError(r, st) ==
    /\ reqs[r].pc = "first"
    /\ LET ps == [PaymentState EXCEPT !.reqs[r].status = st]
       IN IF st # 200
          THEN CommitPayment(resolveRouterConfig(ps, r, nowMs))
          ELSE CommitPayment([ps EXCEPT !.reqs[r] = Returned(@, st)])
    /\ UNCHANGED <<installerVars, restVars, staticSig, nowMs>>

\* The first response arrives: returned as-is unless it is 401/402, in
\* which case the router config is resolved.
FirstResponse(r, st) ==
    /\ reqs[r].pc = "first"
    /\ LET ps == [PaymentState EXCEPT !.reqs[r].status = st]
       IN IF PaymentRequired(st)
          THEN CommitPayment(resolveRouterConfig(ps, r, nowMs))
          ELSE CommitPayment([ps EXCEPT !.reqs[r] = Returned(@, st)])
    /\ UNCHANGED <<installerVars, restVars, staticSig, nowMs>>

\* Mutant: the failure paths cache the fallback without its timestamp.
ResolveReturn_keepStamp(r, outcome) ==
    /\ reqs[r].pc = "configFetch"
    /\ LET c == [normalizeRouterConfig(IF outcome = "ok" THEN "router" ELSE "empty")
                    EXCEPT !.obj = r]
           ps == [PaymentState EXCEPT !.cached = c,
                                      !.cachedAtMs = IF outcome = "ok" THEN reqs[r].startMs ELSE @]
       IN CommitPayment(haveConfig(ps, r, c, nowMs))
    /\ UNCHANGED <<installerVars, restVars, staticSig, nowMs>>

\* The GET /v1/config settles: index.ts 51-69.  outcome: "ok" (2xx with a
\* parsable body), "notOk" (non-2xx), "throw" (network or parse failure).
\* The config is cached with the time the call started and handed on.
ResolveReturn(r, outcome) ==
    /\ reqs[r].pc = "configFetch"
    /\ LET c == [normalizeRouterConfig(IF outcome = "ok" THEN "router" ELSE "empty")
                    EXCEPT !.obj = r]
           ps == [PaymentState EXCEPT !.cached = c, !.cachedAtMs = reqs[r].startMs]
       IN CommitPayment(haveConfig(ps, r, c, nowMs))
    /\ UNCHANGED <<installerVars, restVars, staticSig, nowMs>>

\* Mutant: the permit is handed to the caller that signed only.
Joined_onlyStarter(r, k) == {r}

\* The requests that wait on the sign call r started for key k.
Joined(r, k) ==
    {r} \cup {w \in Requests : reqs[w].pc = "awaitSign" /\ KeyOf(reqs[w].cfg) = k}

\* Mutant: a failed sign call is thrown to the callers (result -1) instead of
\* the 401/402 they received.
SignReturn_throws(r, ok) ==
    /\ reqs[r].pc = "signing"
    /\ LET k == KeyOf(reqs[r].cfg)
           p == signedPermit(reqs[r].cfg, reqs[r].signNo, nowMs)
       IN /\ inflight' = [inflight EXCEPT ![k] = 0]
          /\ IF ok
             THEN /\ entry' = [entry EXCEPT ![k] = p]
                  /\ ledger' = [ledger EXCEPT ![k] = 0]
                  /\ spends' = [spends EXCEPT ![k] = <<>>]
                  /\ reqs' = [w \in Requests |->
                                IF w \in Joined(r, k) THEN retried(reqs[w], p) ELSE reqs[w]]
             ELSE /\ UNCHANGED <<entry, ledger, spends>>
                  /\ reqs' = [w \in Requests |->
                                IF w \in Joined(r, k)
                                THEN Returned([reqs[w] EXCEPT !.log = Append(@, "signFailed")],
                                              0 - 1)
                                ELSE reqs[w]]
    /\ UNCHANGED <<installerVars, restVars, staticSig, nowMs, resolverVars, signCalls>>

\* The pending sign call settles.  On success the permit replaces the cache
\* entry, the ledger restarts at zero and every joined caller receives the
\* permit and retries; on failure every joined caller gets the 401/402 it
\* received back.
SignReturn(r, ok) ==
    /\ reqs[r].pc = "signing"
    /\ LET k == KeyOf(reqs[r].cfg)
           p == signedPermit(reqs[r].cfg, reqs[r].signNo, nowMs)
       IN /\ inflight' = [inflight EXCEPT ![k] = 0]
          /\ IF ok
             THEN /\ entry' = [entry EXCEPT ![k] = p]
                  /\ ledger' = [ledger EXCEPT ![k] = 0]
                  /\ spends' = [spends EXCEPT ![k] = <<>>]
                  /\ reqs' = [w \in Requests |->
                                IF w \in Joined(r, k) THEN retried(reqs[w], p) ELSE reqs[w]]
             ELSE /\ UNCHANGED <<entry, ledger, spends>>
                  /\ reqs' = [w \in Requests |->
                                IF w \in Joined(r, k)
                                THEN Returned([reqs[w] EXCEPT !.log = Append(@, "signFailed")],
                                              reqs[w].status)
                                ELSE reqs[w]]
    /\ UNCHANGED <<installerVars, restVars, staticSig, nowMs, resolverVars, signCalls>>

\* Mutant: a second 401/402 goes round the payment path again.
SecondResponse_retryAgain(r, st) ==
    /\ reqs[r].pc = "second"
    /\ LET ps == [PaymentState EXCEPT !.reqs[r].status = st]
       IN IF PaymentRequired(st)
          THEN CommitPayment(getPermit(ps, r, nowMs))
          ELSE CommitPayment([ps EXCEPT !.reqs[r] = Returned(@, st)])
    /\ UNCHANGED <<installerVars, restVars, staticSig, nowMs>>

\* The retried response is returned as-is.
SecondResponse(r, st) ==
    /\ reqs[r].pc = "second"
    /\ reqs' = [reqs EXCEPT ![r] = Returned([@ EXCEPT !.status = st], st)]
    /\ UNCHANGED <<installerVars, restVars, staticSig, nowMs, resolverVars, cacheVars>>

\* Time passes.
Tick ==
    /\ nowMs < MaxTicks * TickMs
    /\ nowMs' = nowMs + TickMs
    /\ UNCHANGED <<installerVars, restVars, staticSig, resolverVars, cacheVars, reqs>>

\* A millisecond passes.  Clock steps of either size count towards MaxTicks.
TickMilli ==
    /\ (nowMs \div TickMs) + (nowMs % TickMs) < MaxTicks
    /\ nowMs' = nowMs + 1
    /\ UNCHANGED <<installerVars, restVars, staticSig, resolverVars, cacheVars, reqs>>

\* ------------------------------------------------- the permit cache alone
\* Number of sign calls the cache's callers start.
MaxSigns == 2
\* Number of recordSpend calls against one cached permit.
MaxSpends == 2

\* Amounts handed to recordSpend: two fifths and three fifths of the cap.
SpendAmounts == {2 * (DEFAULT_PERMIT_CAP \div 5), 3 * (DEFAULT_PERMIT_CAP \div 5)}

\* The lifetime of a permit in milliseconds.
ValidityMs == DEFAULT_VALIDITY_SECONDS * 1000

\* A request that holds the config made from data calls
\* permitCache.getPermit for that config's key.  A caller that is not
\* waiting for a sign call may call again.  Callers are interchangeable: the
\* call is made by the first one that is not waiting.
GetPermitCall(r, data) ==
    /\ reqs[r].pc \in {"idle", "second", "done"}
    /\ \A q \in Requests : q < r => reqs[q].pc \in {"signing", "awaitSign"}
    /\ LET q == [NewRequest EXCEPT !.cfg = normalizeRouterConfig(data)]
           ps == getPermit([PaymentState EXCEPT !.reqs[r] = q], r, nowMs)
       IN /\ ps.signCalls <= MaxSigns
          /\ CommitPayment(ps)
    /\ UNCHANGED <<installerVars, restVars, staticSig, nowMs>>

\* Mutant: the ledger is set to the amount instead of being incremented.
recordSpend_overwrite(ps, k, amount) ==
    [ps EXCEPT !.ledger[k] = amount, !.spends[k] = Append(@, amount)]

\* permitCache.recordSpend(key, amount): the ledger of the key grows by
\* amount; an entry whose ledger has reached maxValue is exhausted.
recordSpend(ps, k, amount) ==
    [ps EXCEPT !.ledger[k] = @ + amount, !.spends[k] = Append(@, amount)]

\* Some caller records a spend against the permit cached for key k.
RecordSpend(k, amount) ==
    /\ entry[k] # NoPermit
    /\ Len(spends[k]) < MaxSpends
    /\ CommitPayment(recordSpend(PaymentState, k, amount))
    /\ UNCHANGED <<installerVars, restVars, staticSig, nowMs>>

\* A permit's lifetime passes.  Only the time since a permit was signed
\* matters to the cache, so the clock is followed while a permit is live.
TickValidity ==
    /\ nowMs < MaxTicks * ValidityMs
    /\ \E k \in Keys : entry[k] # NoPermit /\ (nowMs \div 1000) < entry[k].deadline
    /\ nowMs' = nowMs + ValidityMs
    /\ UNCHANGED <<installerVars, restVars, staticSig, resolverVars, cacheVars, reqs>>

\* ======================================================================
\* Part 3: the permit signer (src/sign-permit.ts).

\* ------------------------------------------------------------- text values
\* A hex-looking text value (a private key or an address) is described by
\* what the validating expressions look at: white space around it, the
\* characters before the digits, how many characters follow, whether all of
\* them are hex digits, and whether letters among them are upper case.
HexText(pad, prefix, len, hex, upper) ==
    [pad |-> pad, prefix |-> prefix, len |-> len, hex |-> hex, upper |-> upper]

\* Other text (network names) is a sequence of characters.
Digits == <<"0", "1", "2", "3", "4", "5", "6", "7", "8", "9">>
IsDigit(c) == \E i \in 1..10 : Digits[i] = c
DigitValue(c) == (CHOOSE i \in 1..10 : Digits[i] = c) - 1
IsSpace(c) == c = " "

RECURSIVE DecimalValue(_)
DecimalValue(s) ==
    IF s = <<>> THEN 0
    ELSE 10 * DecimalValue(SubSeq(s, 1, Len(s) - 1)) + DigitValue(s[Len(s)])

\* Number.prototype.toString / template literal of a non-negative integer.
RECURSIVE ToDecimal(_)
ToDecimal(n) ==
    IF n < 10 THEN <<Digits[n + 1]>>
    ELSE ToDecimal(n \div 10) \o <<Digits[(n % 10) + 1]>>

RECURSIVE LeadingDigits(_)
LeadingDigits(s) ==
    IF s = <<>> \/ ~IsDigit(Head(s)) THEN <<>>
    ELSE <<Head(s)>> \o LeadingDigits(Tail(s))

RECURSIVE SkipSpace(_)
SkipSpace(s) == IF s # <<>> /\ IsSpace(Head(s)) THEN SkipSpace(Tail(s)) ELSE s

\* Number.parseInt(text, 10): leading white space, an optional sign, then
\* the longest run of decimal digits; NaN when that run is empty.
NaN == [nan |-> TRUE, value |-> 0]
parseInt(text) ==
    LET t == SkipSpace(text)
        signed == t # <<>> /\ Head(t) \in {"+", "-"}
        body == IF signed THEN Tail(t) ELSE t
        ds == LeadingDigits(body)
        magnitude == DecimalValue(ds)
    IN IF ds = <<>> THEN NaN
       ELSE [nan |-> FALSE,
             value |-> IF signed /\ Head(t) = "-" THEN 0 - magnitude ELSE magnitude]

\* String.prototype.split(":").
RECURSIVE split(_)
split(text) ==
    IF \A i \in 1..Len(text) : text[i] # ":" THEN <<text>>
    ELSE LET i == CHOOSE j \in 1..Len(text) :
                     text[j] = ":" /\ \A m \in 1..(j - 1) : text[m] # ":"
         IN <<SubSeq(text, 1, i - 1)>> \o split(SubSeq(text, i + 1, Len(text)))

\* ------------------------------------------------------------------ chains
mainnet == [name |-> "mainnet", id |-> 1]
base == [name |-> "base", id |-> 8453]
baseSepolia == [name |-> "baseSepolia", id |-> 84532]

EIP155 == <<"e", "i", "p", "1", "5", "5">>
Net(suffix) == EIP155 \o <<":">> \o suffix

CHAINS ==
    [n \in {Net(<<"1">>), Net(<<"8", "4", "5", "3">>), Net(<<"8", "4", "5", "3", "2">>)} |->
        IF n = Net(<<"1">>) THEN mainnet
        ELSE IF n = Net(<<"8", "4", "5", "3">>) THEN base
        ELSE baseSepolia]

resolveChain(network) ==
    IF network \in DOMAIN CHAINS THEN CHAINS[network] ELSE base

resolveChainId(network, fallback) ==
    LET parts == split(network)
        chainId == IF Len(parts) >= 2 THEN parts[2] ELSE <<>>
        parsed == parseInt(chainId)
    IN IF ~parsed.nan THEN parsed.value ELSE fallback

\* The network strings sign() is tried with.
Networks ==
    { Net(<<"1">>), Net(<<"8", "4", "5", "3">>), Net(<<"8", "4", "5", "3", "2">>),
      Net(<<"1", "0">>),                  \* well formed, not in CHAINS
      Net(<<>>),                          \* "eip155:"
      EIP155,                             \* "eip155"
      Net(<<"a", "b", "c">>),             \* "eip155:abc"
      Net(<<"1", "2", "a", "b", "c">>),   \* "eip155:12abc"
      Net(<<"1", ":", "5">>),             \* "eip155:1:5"
      Net(<<"-", "5">>) }                 \* "eip155:-5"

\* ------------------------------------------------------------- validation
PRIVATE_KEY_LENGTH == 64
ADDRESS_LENGTH == 40

\* /^0x[0-9a-fA-F]{64}$/.test(value)
PRIVATE_KEY_REGEX(value) ==
    ~value.pad /\ value.prefix = "0x" /\ value.len = PRIVATE_KEY_LENGTH /\ value.hex

\* /^0x[0-9a-fA-F]{40}$/.test(value)
ADDRESS_REGEX(value) ==
    ~value.pad /\ value.prefix = "0x" /\ value.len = ADDRESS_LENGTH /\ value.hex

NoError == [field |-> "", text |-> ""]

asPrivateKey(value) ==
    IF ~PRIVATE_KEY_REGEX(value)
    THEN [field |-> "X402_PRIVATE_KEY", text |-> "must be a 0x-prefixed 64-byte hex string"]
    ELSE NoError

asAddress(value, field) ==
    IF ~ADDRESS_REGEX(value)
    THEN [field |-> field, text |-> "must be a 0x-prefixed 20-byte hex address"]
    ELSE NoError

\* Arguments sign() is tried with.
SignerKeys ==
    { HexText(FALSE, "0x", PRIVATE_KEY_LENGTH, TRUE, FALSE),
      HexText(FALSE, "0X", PRIVATE_KEY_LENGTH, TRUE, FALSE),
      HexText(FALSE, "0x", PRIVATE_KEY_LENGTH - 1, TRUE, FALSE),
      HexText(FALSE, "0x", PRIVATE_KEY_LENGTH, FALSE, FALSE) }

Addresses ==
    { HexText(FALSE, "0x", ADDRESS_LENGTH, TRUE, FALSE),
      HexText(FALSE, "0x", ADDRESS_LENGTH + 1, TRUE, FALSE),
      HexText(FALSE, "", ADDRESS_LENGTH, FALSE, FALSE) }

PermitCaps == {ToDecimal(1), ToDecimal(DEFAULT_PERMIT_CAP)}
NonceValues == {0, 7}

SignPermitParams(key, cap, network, asset, payTo, spender) ==
    [privateKey |-> key,
     permitCap |-> cap,
     routerConfig |-> [network |-> network, asset |-> asset, payTo |-> payTo,
                       facilitatorSigner |-> spender,
                       tokenName |-> "USD Coin", tokenVersion |-> "2"]]

DefaultParams ==
    SignPermitParams(HexText(FALSE, "0x", PRIVATE_KEY_LENGTH, TRUE, FALSE),
                     ToDecimal(DEFAULT_PERMIT_CAP), Net(<<"8", "4", "5", "3">>),
                     HexText(FALSE, "0x", ADDRESS_LENGTH, TRUE, FALSE),
                     HexText(FALSE, "0x", ADDRESS_LENGTH, TRUE, FALSE),
                     HexText(FALSE, "0x", ADDRESS_LENGTH, TRUE, FALSE))

\* privateKeyToAccount(privateKey).address
accountAddress(privateKey) == [ownerOf |-> privateKey]

NoPayload == [x402Version |-> 0]
NoCachedPermit == [paymentSig |-> [base64 |-> [json |-> NoPayload]]]

\* The call before it starts.
NewSigner(params) ==
    [pc |-> "idle",            \* idle, nonce, signing, returned, rejected
     params |-> params,
     chain |-> base,
     chainId |-> 0,
     calls |-> <<>>,           \* remote calls made, in order
     nonce |-> 0,
     deadline |-> 0,
     signedAtMs |-> 0,         \* Date.now() of sign-permit.ts 116
     typedData |-> [chainId |-> 0, value |-> 0, nonce |-> 0, deadline |-> 0],
     error |-> NoError,
     result |-> NoCachedPermit]

toBase64(value) == [base64 |-> value]
fromBase64(text) == text.base64
JSONstringify(value) == [json |-> value]
JSONparse(text) == text.json

\* sign-permit.ts 103-115: everything up to the first await.
signPermitWithViem_validateLate(s) ==
    [s EXCEPT !.pc = "nonce", !.calls = Append(@, "nonces")]

signPermitWithViem(s) ==
    LET params == s.params
        chain == resolveChain(params.routerConfig.network)
        chainId == resolveChainId(params.routerConfig.network, chain.id)
        keyError == asPrivateKey(params.privateKey)
        assetError == asAddress(params.routerConfig.asset, "routerConfig.asset")
        spenderError == asAddress(params.routerConfig.facilitatorSigner,
                                  "routerConfig.facilitatorSigner")
        t == [s EXCEPT !.chain = chain, !.chainId = chainId]
    IN IF keyError # NoError THEN [t EXCEPT !.pc = "rejected", !.error = keyError]
       ELSE IF assetError # NoError THEN [t EXCEPT !.pc = "rejected", !.error = assetError]
       ELSE IF spenderError # NoError
       THEN [t EXCEPT !.pc = "rejected", !.error = spenderError]
       ELSE [t EXCEPT !.pc = "nonce", !.calls = Append(@, "nonces")]

SignCall ==
    /\ signer.pc = "idle"
    /\ signer' = signPermitWithViem(signer)
    /\ UNCHANGED <<installerVars, paymentVars, envVars, loopVars>>

\* sign-permit.ts 115-136: the nonce read settles; on success the deadline
\* is taken from the clock and signTypedData is called.
fetchPermitNonceReturn_retry(s, ok, n, now) ==
    IF ok
    THEN LET deadline == (now \div 1000) + DEFAULT_VALIDITY_SECONDS
         IN [s EXCEPT !.pc = "signing", !.nonce = n, !.deadline = deadline,
                      !.signedAtMs = now,
                      !.typedData = [chainId |-> s.chainId,
                                     value |-> DecimalValue(s.params.permitCap),
                                     nonce |-> n, deadline |-> deadline],
                      !.calls = Append(@, "signTypedData")]
    ELSE [s EXCEPT !.calls = Append(@, "nonces")]

fetchPermitNonceReturn(s, ok, n, now) ==
    IF ok
    THEN LET deadline == (now \div 1000) + DEFAULT_VALIDITY_SECONDS
         IN [s EXCEPT !.pc = "signing", !.nonce = n, !.deadline = deadline,
                      !.signedAtMs = now,
                      !.typedData = [chainId |-> s.chainId,
                                     value |-> DecimalValue(s.params.permitCap),
                                     nonce |-> n, deadline |-> deadline],
                      !.calls = Append(@, "signTypedData")]
    ELSE [s EXCEPT !.pc = "rejected",
                   !.error = [field |-> "nonces", text |-> "readContract failed"]]

NonceReturn(ok, n) ==
    /\ signer.pc = "nonce"
    /\ signer' = fetchPermitNonceReturn(signer, ok, n, nowMs)
    /\ UNCHANGED <<installerVars, paymentVars, envVars, loopVars>>

\* sign-permit.ts 138-160
paymentPayload(s, signature) ==
    [x402Version |-> 2,
     accepted |-> [scheme |-> "upto",
                   network |-> s.params.routerConfig.network,
                   asset |-> s.params.routerConfig.asset,
                   payTo |-> s.params.routerConfig.payTo,
                   extra |-> [name |-> s.params.routerConfig.tokenName,
                              version |-> s.params.routerConfig.tokenVersion]],
     payload |-> [authorization |->
                      [from |-> accountAddress(s.params.privateKey),
                       to |-> s.params.routerConfig.facilitatorSigner,
                       value |-> s.params.permitCap,
                       validBefore |-> ToDecimal(s.deadline),
                       nonce |-> ToDecimal(s.nonce)],
                  signature |-> signature]]

\* sign-permit.ts 162-170
cachedPermit_deadlineAtReturn(s, signature, now) ==
    [paymentSig |-> toBase64(JSONstringify(paymentPayload(s, signature))),
     deadline |-> (now \div 1000) + DEFAULT_VALIDITY_SECONDS,
     maxValue |-> s.params.permitCap,
     nonce |-> ToDecimal(s.nonce),
     network |-> s.params.routerConfig.network,
     asset |-> s.params.routerConfig.asset,
     payTo |-> s.params.routerConfig.payTo]

cachedPermit(s, signature, now) ==
    [paymentSig |-> toBase64(JSONstringify(paymentPayload(s, signature))),
     deadline |-> s.deadline,
     maxValue |-> s.params.permitCap,
     nonce |-> ToDecimal(s.nonce),
     network |-> s.params.routerConfig.network,
     asset |-> s.params.routerConfig.asset,
     payTo |-> s.params.routerConfig.payTo]

\* sign-permit.ts 119-171: signTypedData settles.
SignatureReturn(ok) ==
    /\ signer.pc = "signing"
    /\ signer' =
         IF ok
         THEN [signer EXCEPT !.pc = "returned",
                             !.result = cachedPermit(signer, [signed |-> signer.typedData], nowMs)]
         ELSE [signer EXCEPT !.pc = "rejected",
                             !.error = [field |-> "signTypedData", text |-> "signing failed"]]
    /\ UNCHANGED <<installerVars, paymentVars, envVars, loopVars>>

InitSigner == \E key \in SignerKeys, cap \in PermitCaps, network \in Networks,
                 asset \in Addresses, payTo \in Addresses, spender \in Addresses :
                  signer = NewSigner(SignPermitParams(key, cap, network, asset, payTo, spender))


\* ======================================================================
\* Part 4: configuration loading (src/env.ts) and provider registration
\* (index.ts 103-193).

\* Decimal-looking text: white space around it and the characters between.
DecText(pad, chars) == [pad |-> pad, chars |-> chars]
\* An environment variable that is not set.
Undefined == [undefined |-> TRUE]

\* /^0[xX][0-9a-fA-F]{64}$/.test(privateKey)
ENV_PRIVATE_KEY_REGEX(privateKey) ==
    /\ ~privateKey.pad
    /\ privateKey.prefix \in {"0x", "0X"}
    /\ privateKey.len = PRIVATE_KEY_LENGTH
    /\ privateKey.hex

\* /^[1-9][0-9]*$/.test(permitCap)
POSITIVE_INTEGER_REGEX(permitCap) ==
    /\ ~permitCap.pad
    /\ permitCap.chars # <<>>
    /\ \A i \in 1..Len(permitCap.chars) : IsDigit(permitCap.chars[i])
    /\ permitCap.chars[1] # "0"

\* env.ts 46-51.  String.prototype.trim() removes the surrounding white
\* space; a value that is empty afterwards reads as undefined.
IsEmptyText(value) ==
    IF "chars" \in DOMAIN value THEN value.chars = <<>>
    ELSE value.prefix = "" /\ value.len = 0


readTrimmed(value) ==
    IF value = Undefined THEN Undefined
    ELSE LET trimmed == [value EXCEPT !.pad = FALSE]
         IN IF IsEmptyText(trimmed) THEN Undefined ELSE trimmed

\* env.ts 53-58.  The result is the error, or the normalized key.
normalizePrivateKey_lowercaseAll(privateKey) ==
    IF ~ENV_PRIVATE_KEY_REGEX(privateKey)
    THEN [error |-> [field |-> "X402_PRIVATE_KEY",
                     text |-> "must be a 0x-prefixed 64-byte hex string"]]
    ELSE [error |-> NoError, value |-> [privateKey EXCEPT !.prefix = "0x", !.upper = FALSE]]

normalizePrivateKey_keepPrefix(privateKey) ==
    IF ~ENV_PRIVATE_KEY_REGEX(privateKey)
    THEN [error |-> [field |-> "X402_PRIVATE_KEY",
                     text |-> "must be a 0x-prefixed 64-byte hex string"]]
    ELSE [error |-> NoError, value |-> privateKey]

normalizePrivateKey(privateKey) ==
    IF ~ENV_PRIVATE_KEY_REGEX(privateKey)
    THEN [error |-> [field |-> "X402_PRIVATE_KEY",
                     text |-> "must be a 0x-prefixed 64-byte hex string"]]
    ELSE [error |-> NoError,
          value |-> IF privateKey.prefix = "0X"
                    THEN [privateKey EXCEPT !.prefix = "0x"] ELSE privateKey]

\* env.ts 60-68.  A router URL is text together with whether new URL()
\* accepts it.
UrlText(pad, chars, valid) == [pad |-> pad, chars |-> chars, valid |-> valid]

normalizeRouterUrl(routerUrl) ==
    IF ~routerUrl.valid
    THEN [error |-> [field |-> "X402_ROUTER_URL", text |-> "must be a valid URL"]]
    ELSE [error |-> NoError, value |-> routerUrl]

\* env.ts 70-75
normalizePermitCap_acceptAll(permitCap) ==
    [error |-> NoError, value |-> permitCap]

normalizePermitCap(permitCap) ==
    IF ~POSITIVE_INTEGER_REGEX(permitCap)
    THEN [error |-> [field |-> "X402_PERMIT_CAP", text |-> "must be a positive integer string"]]
    ELSE [error |-> NoError, value |-> permitCap]

DEFAULT_ROUTER_URL == UrlText(FALSE, <<"h", "t", "t", "p">>, TRUE)
DEFAULT_PERMIT_CAP_TEXT == DecText(FALSE, ToDecimal(DEFAULT_PERMIT_CAP))

NoEnvConfig == [privateKey |-> Undefined, routerUrl |-> Undefined, permitCap |-> Undefined]

\* env.ts 77-99.  The result is the error thrown, or the configuration.
loadX402Env(env) ==
    LET privateKeyRaw == readTrimmed(env.X402_PRIVATE_KEY)
        routerUrlRead == readTrimmed(env.X402_ROUTER_URL)
        routerUrlRaw == IF routerUrlRead = Undefined THEN DEFAULT_ROUTER_URL ELSE routerUrlRead
        permitCapRead == readTrimmed(env.X402_PERMIT_CAP)
        permitCapRaw == IF permitCapRead = Undefined THEN DEFAULT_PERMIT_CAP_TEXT
                        ELSE permitCapRead
    IN IF privateKeyRaw = Undefined
       THEN [error |-> [field |-> "X402_PRIVATE_KEY", text |-> "is required"],
             config |-> NoEnvConfig]
       ELSE LET key == normalizePrivateKey(privateKeyRaw)
                url == normalizeRouterUrl(routerUrlRaw)
                cap == normalizePermitCap(permitCapRaw)
            IN IF key.error # NoError THEN [error |-> key.error, config |-> NoEnvConfig]
               ELSE IF url.error # NoError THEN [error |-> url.error, config |-> NoEnvConfig]
               ELSE IF cap.error # NoError THEN [error |-> cap.error, config |-> NoEnvConfig]
               ELSE [error |-> NoError,
                     config |-> [privateKey |-> key.value, routerUrl |-> url.value,
                                 permitCap |-> cap.value]]

\* The environments registration is tried with.
EnvKeys ==
    { Undefined,
      HexText(FALSE, "", 0, TRUE, FALSE),                      \* ""
      HexText(TRUE, "", 0, TRUE, FALSE),                       \* "  "
      HexText(FALSE, "0x", PRIVATE_KEY_LENGTH, TRUE, FALSE),
      HexText(FALSE, "0x", PRIVATE_KEY_LENGTH, TRUE, TRUE),
      HexText(FALSE, "0X", PRIVATE_KEY_LENGTH, TRUE, TRUE),
      HexText(TRUE, "0x", PRIVATE_KEY_LENGTH, TRUE, FALSE),    \* " 0x..64.. "
      HexText(FALSE, "0x", PRIVATE_KEY_LENGTH + 1, TRUE, FALSE),
      HexText(FALSE, "0x", PRIVATE_KEY_LENGTH, FALSE, FALSE),
      HexText(FALSE, "", PRIVATE_KEY_LENGTH, TRUE, FALSE) }

EnvCaps ==
    { Undefined,
      DecText(FALSE, <<>>),                 \* ""
      DecText(TRUE, <<>>),                  \* "  "
      DecText(FALSE, <<"-", "1">>),         \* "-1"
      DecText(FALSE, <<"0">>),              \* "0"
      DecText(FALSE, <<"0", "7">>),         \* "07"
      DecText(FALSE, <<"1", ".", "5">>),    \* "1.5"
      DecText(FALSE, <<"a", "b", "c">>),    \* "abc"
      DecText(FALSE, <<"5">>),              \* "5"
      DecText(TRUE, <<"5">>),               \* " 5 "
      DecText(FALSE, ToDecimal(DEFAULT_PERMIT_CAP)) }

EnvUrls == {Undefined, UrlText(FALSE, <<"h", "t", "t", "p">>, TRUE), UrlText(FALSE, <<"x">>, FALSE)}

EnvSource(key, url, cap) ==
    [X402_PRIVATE_KEY |-> key, X402_ROUTER_URL |-> url, X402_PERMIT_CAP |-> cap]

DefaultEnv == EnvSource(HexText(FALSE, "0x", PRIVATE_KEY_LENGTH, TRUE, FALSE), Undefined, Undefined)

\* registerX402Provider before it is called.
NewRegistration ==
    [pc |-> "idle",     \* idle, registered, threw
     error |-> NoError,
     config |-> NoEnvConfig,
     built |-> <<>>]    \* what has been constructed or registered, in order

\* index.ts 103-193.  loadX402Env(envSource) is the first statement; the
\* constructions and pi.registerProvider follow it in this order.
registerX402Provider(reg, env) ==
    LET loaded == loadX402Env(env)
    IN IF loaded.error # NoError
       THEN [reg EXCEPT !.pc = "threw", !.error = loaded.error]
       ELSE [reg EXCEPT !.pc = "registered", !.config = loaded.config,
                        !.built = <<"createPermitSigner", "PermitCache",
                                    "createRouterConfigResolver", "createX402Fetch",
                                    "createFetchPatcher", "registerProvider">>]

RegisterX402Provider ==
    /\ registration.pc = "idle"
    /\ registration' = registerX402Provider(registration, envSource)
    /\ UNCHANGED <<installerVars, paymentVars, signerVars, envSource, loopVars>>

\* The first paid request after registration: the payment-aware fetch
\* hands env.privateKey and env.permitCap (index.ts 118-119) to the signer
\* built at index.ts 106, which runs up to its first await.
SignWithLoadedKey ==
    /\ registration.pc = "registered"
    /\ signer.pc = "idle"
    /\ signer' = signPermitWithViem(NewSigner(
                     [DefaultParams EXCEPT !.privateKey = registration.config.privateKey,
                                           !.permitCap = registration.config.permitCap.chars]))
    /\ UNCHANGED <<installerVars, paymentVars, envVars, loopVars>>

InitEnv ==
    /\ \E key \in EnvKeys, url \in EnvUrls, cap \in EnvCaps : envSource = EnvSource(key, url, cap)
    /\ registration = NewRegistration


\* ======================================================================
\* Part 5: the tick loop (createTickLoop, tick-loop.ts).

\* Number of start(), stop() and interval firings in one run.
MaxLoopCalls == 5

\* No interval handle (let timer = null).
NoTimer == [id |-> 0]

\* What onTick can throw or reject with: an Error, or another value.
Nothing == [isError |-> FALSE, text |-> ""]
Thrown == {[isError |-> TRUE, text |-> "boom"], [isError |-> FALSE, text |-> "boom"]}

\* One run of onTick up to its return: whether its synchronous part calls
\* the loop's stop(), and what it throws before returning a promise
\* (Nothing when it returns one).
OnTickRuns == {[stop |-> s, thrown |-> t] : s \in BOOLEAN, t \in {Nothing} \cup Thrown}

LoopState ==
    [timer |-> timer, running |-> running, ticking |-> ticking, count |-> count,
     pendingTicks |-> pendingTicks, onTickCalls |-> onTickCalls,
     skippedTicks |-> skippedTicks, liveTimers |-> liveTimers,
     timersMade |-> timersMade, onErrorCalls |-> onErrorCalls,
     lastError |-> lastError]

CommitLoop(l) ==
    /\ timer' = l.timer
    /\ running' = l.running
    /\ ticking' = l.ticking
    /\ count' = l.count
    /\ pendingTicks' = l.pendingTicks
    /\ onTickCalls' = l.onTickCalls
    /\ skippedTicks' = l.skippedTicks
    /\ liveTimers' = l.liveTimers
    /\ timersMade' = l.timersMade
    /\ onErrorCalls' = l.onErrorCalls
    /\ lastError' = l.lastError

\* tick-loop.ts 40-46.  clearInterval removes the handle from the runtime's
\* live intervals.
stop(l) ==
    IF l.timer # NoTimer
    THEN [l EXCEPT !.liveTimers = @ \ {l.timer.id}, !.timer = NoTimer, !.running = FALSE]
    ELSE [l EXCEPT !.running = FALSE]

\* tick-loop.ts 26-27: the catch block.
\* err instanceof Error ? err : new Error(String(err))
asError(err) == IF err.isError THEN err ELSE [isError |-> TRUE, text |-> err.text]

catch_silent(l, err) == l

catch(l, err) ==
    [l EXCEPT !.onErrorCalls = @ + 1, !.lastError = asError(err)]

\* tick-loop.ts 20-24: tick() up to its await.  onTick either returns a
\* promise, which is then pending, or throws before returning one, in which
\* case catch and finally run at once.
tick_noMutex(l, run) ==
    LET called == [l EXCEPT !.ticking = TRUE, !.onTickCalls = @ + 1]
        inside == IF run.stop THEN stop(called) ELSE called
    IN IF run.thrown # Nothing
       THEN [catch(inside, run.thrown) EXCEPT !.ticking = FALSE]
       ELSE [inside EXCEPT !.pendingTicks = @ + 1]

tick(l, run) ==
    IF l.ticking THEN [l EXCEPT !.skippedTicks = @ + 1]
    ELSE LET called == [l EXCEPT !.ticking = TRUE, !.onTickCalls = @ + 1]
             inside == IF run.stop THEN stop(called) ELSE called
         IN IF run.thrown # Nothing
            THEN [catch(inside, run.thrown) EXCEPT !.ticking = FALSE]
            ELSE [inside EXCEPT !.pendingTicks = @ + 1]

\* tick-loop.ts 24-30: tick() after its await.  outcome is Nothing when the
\* promise fulfilled, else the value it rejected with.
settle_countAlways(l, outcome) ==
    LET l1 == [l EXCEPT !.pendingTicks = @ - 1, !.count = @ + 1]
    IN [(IF outcome = Nothing THEN l1 ELSE catch(l1, outcome)) EXCEPT !.ticking = FALSE]

settle(l, outcome) ==
    LET l1 == [l EXCEPT !.pendingTicks = @ - 1]
    IN [(IF outcome = Nothing THEN [l1 EXCEPT !.count = @ + 1] ELSE catch(l1, outcome))
           EXCEPT !.ticking = FALSE]

\* tick-loop.ts 34-39.  setInterval hands out a fresh handle.
start_noGuard(l, run) ==
    LET l1 == tick([l EXCEPT !.running = TRUE], run)
        id == l1.timersMade + 1
    IN [l1 EXCEPT !.timer = [id |-> id], !.liveTimers = @ \cup {id}, !.timersMade = id]

start_noImmediateTick(l, run) ==
    IF l.running THEN l
    ELSE LET id == l.timersMade + 1
         IN [l EXCEPT !.running = TRUE, !.timer = [id |-> id],
                      !.liveTimers = @ \cup {id}, !.timersMade = id]

start(l, run) ==
    IF l.running THEN l
    ELSE LET l1 == tick([l EXCEPT !.running = TRUE], run)
             id == l1.timersMade + 1
         IN [l1 EXCEPT !.timer = [id |-> id], !.liveTimers = @ \cup {id}, !.timersMade = id]

Start(run) ==
    /\ loopCalls < MaxLoopCalls
    /\ loopCalls' = loopCalls + 1
    /\ CommitLoop(start(LoopState, run))
    /\ UNCHANGED <<installerVars, paymentVars, signerVars, envVars>>

Stop ==
    /\ loopCalls < MaxLoopCalls
    /\ loopCalls' = loopCalls + 1
    /\ CommitLoop(stop(LoopState))
    /\ UNCHANGED <<installerVars, paymentVars, signerVars, envVars>>

\* A live interval fires: setInterval(tick, intervalMs).
IntervalFires(id, run) ==
    /\ id \in liveTimers
    /\ loopCalls < MaxLoopCalls
    /\ loopCalls' = loopCalls + 1
    /\ CommitLoop(tick(LoopState, run))
    /\ UNCHANGED <<installerVars, paymentVars, signerVars, envVars>>

\* The promise onTick returned settles.
OnTickSettles(outcome) ==
    /\ pendingTicks > 0
    /\ CommitLoop(settle(LoopState, outcome))
    /\ UNCHANGED <<loopCalls, installerVars, paymentVars, signerVars, envVars>>

InitLoop ==
    /\ timer = NoTimer
    /\ liveTimers = {}
    /\ timersMade = 0
    /\ onErrorCalls = 0
    /\ lastError = Nothing
    /\ running = FALSE
    /\ ticking = FALSE
    /\ count = 0
    /\ pendingTicks = 0
    /\ onTickCalls = 0
    /\ skippedTicks = 0
    /\ loopCalls = 0

\* The signer, the registration and the tick loop at rest, for the
\* specifications of parts 1 and 2.
InitRest ==
    /\ signer = NewSigner(DefaultParams)
    /\ envSource = DefaultEnv
    /\ registration = NewRegistration
    /\ InitLoop


vars == <<installerVars, paymentVars, restVars>>

InitPatcher ==
    /\ globalFetch = NativeFetch
    /\ activeStreams = 0
    /\ originalFetch = Null
    /\ released = [h \in Handles |-> "none"]
    /\ installs = 0
    /\ restores = 0
    /\ relCalls = [h \in Handles |-> 0]
    /\ streamPc = [h \in Handles |-> "none"]
    /\ startedHeld = [h \in Handles |-> FALSE]
    /\ foreignSaved = Null
    /\ foreignWrote = FALSE

InitPayment ==
    /\ nowMs = 0
    /\ cached = NoConfig
    /\ cachedAtMs = 0
    /\ configFetches = 0
    /\ entry = [k \in Keys |-> NoPermit]
    /\ ledger = [k \in Keys |-> 0]
    /\ inflight = [k \in Keys |-> 0]
    /\ signCalls = 0
    /\ spends = [k \in Keys |-> <<>>]
    /\ reqs = [r \in Requests |-> NewRequest]

Init == InitPatcher /\ InitPayment /\ InitRest /\ staticSig = FALSE

\* Registration without X402_PAYMENT_SIGNATURE (signed-permit mode) ...
InitFetch == InitPatcher /\ InitPayment /\ InitRest /\ staticSig = FALSE

\* ... and with it (static mode).
InitStatic == InitPatcher /\ InitPayment /\ InitRest /\ staticSig = TRUE

Next ==
    \/ \E h \in Handles : Acquire(h)
    \/ \E h \in Handles : Release(h)
    \/ \E h \in Handles, t \in BOOLEAN : StreamX402(h, t)
    \/ \E h \in Handles, f \in BOOLEAN : StreamSettle(h, f)
    \/ ForeignInstall
    \/ ForeignRestore

Spec == Init /\ [][Next]_vars

\* Every stream result eventually settles.
FairSpec == Spec /\ \A h \in Handles : WF_vars(\E f \in BOOLEAN : StreamSettle(h, f))

\* Two fetch installers in one process, each acquired and released by its
\* own callers.
NextTwoInstallers ==
    \/ \E h \in Handles : Acquire(h)
    \/ \E h \in Handles : Release(h)
    \/ ForeignInstall
    \/ OtherRelease

SpecTwoInstallers == Init /\ [][NextTwoInstallers]_vars

NextFetch ==
    \/ \E r \in Requests : X402FetchCall(r)
    \/ \E r \in Requests, st \in Statuses : FirstResponse(r, st)
    \/ \E r \in Requests, o \in {"ok", "notOk", "throw"} : ResolveReturn(r, o)
    \/ \E r \in Requests, ok \in BOOLEAN : SignReturn(r, ok)
    \/ \E r \in Requests, st \in Statuses : SecondResponse(r, st)
    \/ Tick

SpecFetch == InitFetch /\ [][NextFetch]_vars

SpecStatic == InitStatic /\ [][NextFetch]_vars

\* The resolver under requests that are all answered 402 first, so that
\* every request calls resolveRouterConfig(), with the clock followed to
\* the millisecond.
NextResolver ==
    \/ \E r \in Requests : X402FetchCall(r)
    \/ \E r \in Requests : FirstResponse(r, 402)
    \/ \E r \in Requests, o \in {"ok", "notOk", "throw"} : ResolveReturn(r, o)
    \/ \E r \in Requests, ok \in BOOLEAN : SignReturn(r, ok)
    \/ \E r \in Requests : SecondResponse(r, 200)
    \/ Tick
    \/ TickMilli

SpecResolver == InitFetch /\ [][NextResolver]_vars

NextCache ==
    \/ \E r \in Requests, d \in {"router", "empty"} : GetPermitCall(r, d)
    \/ \E r \in Requests, ok \in BOOLEAN : SignReturn(r, ok)
    \/ \E k \in Keys, a \in SpendAmounts : RecordSpend(k, a)
    \/ TickValidity

SpecCache == InitFetch /\ [][NextCache]_vars

\* sign() alone, for every combination of arguments, with the clock followed.
NextSigner ==
    \/ SignCall
    \/ \E ok \in BOOLEAN, n \in NonceValues : NonceReturn(ok, n)
    \/ \E ok \in BOOLEAN : SignatureReturn(ok)
    \/ Tick
    \/ TickMilli

InitSignerSpec ==
    /\ InitPatcher /\ InitPayment /\ staticSig = FALSE
    /\ InitSigner
    /\ envSource = DefaultEnv /\ registration = NewRegistration
    /\ InitLoop

SpecSigner == InitSignerSpec /\ [][NextSigner]_vars

\* registerX402Provider for every environment.
InitEnvSpec ==
    /\ InitPatcher /\ InitPayment /\ staticSig = FALSE
    /\ signer = NewSigner(DefaultParams)
    /\ InitEnv
    /\ InitLoop

SpecEnv == InitEnvSpec /\ [][RegisterX402Provider]_vars

\* Requests handled by the payment-aware fetch while streams hold the
\* substitution: every first response is a 402, so every request looks up
\* the router config and retries.
NextInstalled ==
    \/ \E h \in Handles : StreamX402(h, FALSE)
    \/ \E h \in Handles : StreamSettle(h, TRUE)
    \/ \E r \in Requests : X402FetchCall(r)
    \/ \E r \in Requests : FirstResponse(r, 402)
    \/ \E r \in Requests : ResolveReturn(r, "ok")
    \/ \E r \in Requests : SignReturn(r, TRUE)
    \/ \E r \in Requests : SecondResponse(r, 200)

SpecInstalled == InitFetch /\ [][NextInstalled]_vars

\* Registration followed by a first signature with what was loaded.
NextEnvSign ==
    \/ RegisterX402Provider
    \/ SignWithLoadedKey

SpecEnvSign == InitEnvSpec /\ [][NextEnvSign]_vars

\* The tick loop alone.
NextLoop ==
    \/ \E run \in OnTickRuns : Start(run)
    \/ Stop
    \/ \E id \in liveTimers, run \in OnTickRuns : IntervalFires(id, run)
    \/ \E outcome \in {Nothing} \cup Thrown : OnTickSettles(outcome)

SpecLoop == InitFetch /\ [][NextLoop]_vars


\* =================================================================== claims

Live == {h \in Handles : released[h] = "false"}

\* C1: with no other component writing the process-wide fetch, whenever some
\* acquired handle has not been released, the process-wide fetch is the
\* payment-aware fetch.
C1_InstalledWhileActive ==
    (~foreignWrote /\ Live # {}) => globalFetch = FetchImpl

\* Two handles were acquired, one of them has been released, one is active.
C1_Witness ==
    /\ ~foreignWrote
    /\ Cardinality(Live) = 1
    /\ \E h \in Handles : released[h] = "true"

\* C2: an acquire() at count 0 captures the current process-wide fetch and
\* installs the payment-aware fetch; an acquire() at count 1 or more changes
\* neither the process-wide fetch nor the captured original and increments
\* the count (also when the same handler releases again at once).
C2_AcquireStep ==
    \A h \in Handles :
        /\ (released[h] = "none" /\ released'[h] = "false") =>
              IF activeStreams = 0
              THEN /\ originalFetch' = globalFetch
                   /\ globalFetch' = FetchImpl
                   /\ activeStreams' = 1
              ELSE /\ globalFetch' = globalFetch
                   /\ originalFetch' = originalFetch
                   /\ activeStreams' = activeStreams + 1
        /\ (released[h] = "none" /\ released'[h] = "true" /\ activeStreams > 0) =>
              /\ globalFetch' = globalFetch
              /\ originalFetch' = originalFetch

C2_AcquireFrame == [][C2_AcquireStep]_vars

\* A second acquire happened while the first handle was active, after another
\* component had changed the process-wide fetch.
C2_Witness ==
    /\ activeStreams = 2
    /\ installs = 1
    /\ globalFetch = OtherFetch

\* C3: with the payment-aware fetch still in place, every release except the
\* last leaves the substitution and the captured original as they are, and the
\* release that returns the count to 0 writes the captured original back;
\* there is never more than one restore per install, and with no other
\* component writing there is exactly one per completed install cycle.
C3_ReleaseStep ==
    \A h \in Handles :
        (released[h] = "false" /\ released'[h] = "true" /\ globalFetch = FetchImpl) =>
            IF activeStreams > 1
            THEN /\ globalFetch' = FetchImpl
                 /\ originalFetch' = originalFetch
                 /\ restores' = restores
            ELSE /\ globalFetch' = originalFetch
                 /\ restores' = restores + 1

C3_RestoreCount ==
    /\ restores <= installs
    /\ ~foreignWrote => restores = installs - (IF activeStreams > 0 THEN 1 ELSE 0)

C3_RestoreOnLastRelease == [][C3_ReleaseStep]_vars /\ []C3_RestoreCount

\* Two handles were acquired in one install cycle and both are released: one
\* install, one restore, the original fetch is back.
C3_Witness ==
    /\ ~foreignWrote
    /\ Cardinality({h \in Handles : released[h] = "true"}) = 2
    /\ installs = 1
    /\ restores = 1
    /\ globalFetch = NativeFetch

\* C4: calling a release closure a second or later time changes neither the
\* active-caller count nor the process-wide fetch.
C4_RepeatStep ==
    \A h \in Handles :
        (relCalls'[h] = relCalls[h] + 1 /\ relCalls[h] >= 1) =>
            /\ activeStreams' = activeStreams
            /\ globalFetch' = globalFetch

C4_ReleaseIdempotent == [][C4_RepeatStep]_vars

\* One closure was called twice while another handle is still active.
C4_Witness ==
    \E h \in Handles :
        /\ relCalls[h] = 2
        /\ \E g \in Handles \ {h} : released[g] = "false"
        /\ activeStreams = 1

\* C5: when the release that returns the count to 0 finds the process-wide
\* fetch is not the payment-aware fetch, it leaves the process-wide fetch
\* unchanged.
C5_ForeignStep ==
    \A h \in Handles :
        (/\ released[h] = "false"
         /\ released'[h] = "true"
         /\ activeStreams = 1
         /\ globalFetch # FetchImpl) => globalFetch' = globalFetch

C5_NoClobber == [][C5_ForeignStep]_vars

\* An install cycle ended without a restore and the other component's fetch
\* is still in place.
C5_Witness ==
    /\ activeStreams = 0
    /\ installs = 1
    /\ restores = 0
    /\ globalFetch = OtherFetch

\* C6: every streamX402 call holds its handle when the stream starts and
\* calls its release closure exactly once, at the synchronous throw or when
\* the result settles; every stream in flight eventually settles with its
\* handle released, and once no handle is active (and no other component
\* wrote the process-wide fetch) the substitution is uninstalled.
C6_ReleasedOnce ==
    \A h \in Handles :
        /\ streamPc[h] # "none" => startedHeld[h]
        /\ streamPc[h] = "streaming" => (relCalls[h] = 0 /\ released[h] = "false")
        /\ streamPc[h] \in {"settled", "threw"} => (relCalls[h] = 1 /\ released[h] = "true")

C6_Uninstalled ==
    (Live = {} /\ ~foreignWrote) =>
        /\ globalFetch = NativeFetch
        /\ activeStreams = 0
        /\ originalFetch = Null

C6_StreamReleases ==
    /\ []C6_ReleasedOnce
    /\ []C6_Uninstalled
    /\ \A h \in Handles :
          (streamPc[h] = "streaming") ~> (streamPc[h] = "settled" /\ released[h] = "true")

\* Two concurrent streams, one threw at start and one settled; the original
\* fetch is back.
C6_Witness ==
    /\ \E h \in Handles : streamPc[h] = "threw"
    /\ Cardinality({h \in Handles : streamPc[h] = "settled"}) = 2
    /\ ~foreignWrote
    /\ globalFetch = NativeFetch

\* ----------------------------------------------------- payment-aware fetch

\* The number of sign calls request r started.
SignsBy(r) == Cardinality({i \in DOMAIN reqs[r].log : reqs[r].log[i] = "sign"})

OnPaymentPath(r) == reqs[r].pc \in {"configFetch", "signing", "awaitSign", "second"}

\* C7: a logical request makes at most two network calls and starts at most
\* one sign call; a retried request returns the response to its retry,
\* whatever its status, and a returned response is the last one received.
C7_AtMostOneRetry ==
    \A r \in Requests :
        /\ reqs[r].netCalls <= 2
        /\ SignsBy(r) <= 1
        /\ reqs[r].pc = "second" => reqs[r].netCalls = 2
        /\ reqs[r].pc = "done" => (reqs[r].result = reqs[r].status /\ reqs[r].netCalls >= 1)

\* In signed-permit mode a request was retried, was answered 401/402 again
\* and returned that response.
C7_Witness ==
    /\ ~staticSig
    /\ \E r \in Requests :
          /\ reqs[r].pc = "done"
          /\ reqs[r].netCalls = 2
          /\ reqs[r].result \in {401, 402}

\* The orders of steps of a retried request: with and without a sign call of
\* its own.
RetryLogs ==
    {<<"request", "resolve", "sign", "permit", "retry">>,
     <<"request", "resolve", "permit", "retry">>}

\* C8: a request whose retry is out has gone through request, config
\* resolution, permit acquisition (with at most one sign call of its own
\* before it) and one retry, in this order; the retry is the second network
\* call and carries the permit's paymentSig; the permit is the cache entry
\* of the key network:asset:payTo of the config used, and every cache entry
\* carries the network, asset and payTo of its key.  The response to the
\* retry is what the request returns.
C8_RetryAfterPermit ==
    /\ \A r \in Requests :
          /\ reqs[r].pc = "second" =>
                /\ reqs[r].log \in RetryLogs
                /\ reqs[r].netCalls = 2
                /\ reqs[r].permit # NoPermit
                /\ reqs[r].hdr2 = reqs[r].permit.paymentSig
                /\ reqs[r].hdr2Name = reqs[r].cfg.paymentHeader
                /\ reqs[r].hdr2Name # ""
                /\ KeyOf(reqs[r].permit) = KeyOf(reqs[r].cfg)
                /\ entry[KeyOf(reqs[r].cfg)] # NoPermit
          /\ (reqs[r].pc = "done" /\ reqs[r].netCalls = 2) =>
                /\ reqs[r].log \in RetryLogs
                /\ reqs[r].result = reqs[r].status
                /\ \E k \in Keys : entry[k] # NoPermit
    /\ \A k \in Keys : entry[k] # NoPermit => KeyOf(entry[k]) = k

\* A request was rejected, signed a permit itself, retried and returned 200,
\* and the permit is cached under the router config's key.
C8_Witness ==
    \E r \in Requests :
        /\ reqs[r].pc = "done"
        /\ reqs[r].netCalls = 2
        /\ reqs[r].result = 200
        /\ reqs[r].log = <<"request", "resolve", "sign", "permit", "retry">>
        /\ entry[KeyOf(normalizeRouterConfig("router"))] # NoPermit

\* C9: a request is on the payment path only after a 401/402; a request
\* that returned after one network call with any other status returned that
\* status and did nothing but issue the request: no config resolution, no
\* permit or sign call, no retry.
C9_PassThrough ==
    \A r \in Requests :
        /\ OnPaymentPath(r) => PaymentRequired(reqs[r].status)
        /\ (reqs[r].pc = "done" /\ reqs[r].netCalls = 1 /\ ~PaymentRequired(reqs[r].status)) =>
              /\ reqs[r].result = reqs[r].status
              /\ reqs[r].log = <<"request">>
        /\ configFetches <= Cardinality({q \in Requests : Len(reqs[q].log) > 1 \/ OnPaymentPath(q)})
        /\ signCalls <= Cardinality({q \in Requests : Len(reqs[q].log) > 1 \/ OnPaymentPath(q)})

\* A 500 was passed through while nothing was resolved or signed.
C9_Witness ==
    /\ \E r \in Requests :
          /\ reqs[r].pc = "done"
          /\ reqs[r].result = 500
          /\ reqs[r].netCalls = 1
    /\ configFetches = 0
    /\ signCalls = 0
    /\ cached = NoConfig

\* C10: with a static payment signature configured every request carries it
\* on its first attempt and there is no config resolution, no signing and no
\* retry, whatever the response.
C10_StaticSkipsRetry ==
    staticSig =>
        /\ \A r \in Requests :
              /\ reqs[r].pc # "idle" => reqs[r].hdr1 = StaticPaymentSignature
              /\ reqs[r].pc \in {"idle", "first", "done"}
              /\ reqs[r].netCalls <= 1
        /\ configFetches = 0
        /\ signCalls = 0

\* ------------------------------------------------------- retry ordering

\* The sign calls that have not settled yet.
PendingSigns == {reqs[inflight[k]].signNo : k \in {j \in Keys : inflight[j] # 0}}

\* C11: while a request resolves the config, signs or waits for a sign call
\* it has made one network call only and holds no permit; a request whose
\* retry is out received a 401/402 first, holds a config and a permit, and
\* that permit comes from a sign call that has settled.
C11_NoSpeculativeRetry ==
    \A r \in Requests :
        /\ reqs[r].pc \in {"configFetch", "signing", "awaitSign"} =>
              /\ reqs[r].netCalls = 1
              /\ reqs[r].permit = NoPermit
              /\ PaymentRequired(reqs[r].status)
        /\ reqs[r].netCalls = 2 => reqs[r].pc \in {"second", "done"}
        /\ reqs[r].pc = "second" =>
              /\ PaymentRequired(reqs[r].status)
              /\ reqs[r].cfg # NoConfig
              /\ reqs[r].permit # NoPermit
              /\ reqs[r].permit.paymentSig \in 1..signCalls
              /\ reqs[r].permit.paymentSig \notin PendingSigns

\* Two requests retried with the same permit: one signed it, the other
\* waited for that sign call.
C11_Witness ==
    \E r, w \in Requests :
        /\ reqs[r].pc = "second"
        /\ reqs[w].pc = "second"
        /\ reqs[r].log = <<"request", "resolve", "sign", "permit", "retry">>
        /\ reqs[w].log = <<"request", "resolve", "permit", "retry">>
        /\ reqs[w].permit = reqs[r].permit

\* A request whose permit acquisition failed.
SignFailed(r) ==
    /\ Len(reqs[r].log) > 0
    /\ reqs[r].log[Len(reqs[r].log)] = "signFailed"

\* C12: a request whose permit acquisition failed has returned the 401/402
\* it received and made no second network call.
C12_SignFailureSurfacesRejection ==
    \A r \in Requests :
        SignFailed(r) =>
            /\ reqs[r].pc = "done"
            /\ PaymentRequired(reqs[r].result)
            /\ reqs[r].result = reqs[r].status
            /\ reqs[r].netCalls = 1

\* A sign call failed for the request that started it and for one that had
\* joined it; one was answered 401, the other 402.
C12_Witness ==
    \E r, w \in Requests :
        /\ SignFailed(r)
        /\ SignFailed(w)
        /\ reqs[r].log = <<"request", "resolve", "sign", "signFailed">>
        /\ reqs[w].log = <<"request", "resolve", "signFailed">>
        /\ reqs[r].result = 401
        /\ reqs[w].result = 402

\* ------------------------------------------------------------ permit cache

\* The callers waiting for a sign call for key k.
Waiting(k) ==
    {r \in Requests : reqs[r].pc \in {"signing", "awaitSign"} /\ KeyOf(reqs[r].cfg) = k}

\* The callers whose own sign call for key k is pending.
Signing(k) ==
    {r \in Requests : reqs[r].pc = "signing" /\ KeyOf(reqs[r].cfg) = k}

\* C13: while callers wait for a permit on a key with no cache entry, exactly
\* one of them has invoked the sign function; when that sign call succeeds
\* no further sign call is made and every one of them receives the one
\* permit that became the cache entry.
C13_ColdOneSign ==
    \A k \in Keys :
        (entry[k] = NoPermit /\ Waiting(k) # {}) =>
            /\ Cardinality(Signing(k)) = 1
            /\ Cardinality({r \in Waiting(k) : SignsBy(r) = 1}) = 1

C13_ColdStep ==
    \A k \in Keys :
        (entry[k] = NoPermit /\ entry'[k] # NoPermit) =>
            /\ Waiting(k) # {}
            /\ signCalls' = signCalls
            /\ \A r \in Waiting(k) :
                  /\ reqs'[r].pc = "second"
                  /\ reqs'[r].permit = entry'[k]

C13_ColdCacheSignsOnce == []C13_ColdOneSign /\ [][C13_ColdStep]_vars

\* Two callers asked for the same key on a cold cache; one sign call was
\* made and both hold the same permit.
C13_Witness ==
    /\ signCalls = 1
    /\ \E r, w \in Requests :
          /\ r # w
          /\ reqs[r].pc = "second"
          /\ reqs[w].pc = "second"
          /\ SignsBy(r) = 1
          /\ SignsBy(w) = 0
          /\ reqs[r].permit = reqs[w].permit
          /\ reqs[r].permit = entry[KeyOf(reqs[r].cfg)]

\* C14: for every key at most one sign call is pending, and it is the one
\* the cache has noted as in flight, whether the key's entry is absent,
\* expired or exhausted.
C14_OneSignInFlightPerKey ==
    \A k \in Keys :
        /\ Cardinality(Signing(k)) <= 1
        /\ Signing(k) = (IF inflight[k] = 0 THEN {} ELSE {inflight[k]})

\* Two callers found the cached permit exhausted (not expired): one signs,
\* the other waits for that sign call.
C14_Witness ==
    \E k \in Keys :
        /\ entry[k] # NoPermit
        /\ (nowMs \div 1000) < entry[k].deadline
        /\ ledger[k] >= entry[k].maxValue
        /\ Cardinality(Signing(k)) = 1
        /\ Cardinality(Waiting(k)) = 2

\* C15: a caller waits only for a sign call pending for its own key, so a
\* sign call pending for another key never holds up a getPermit; and
\* recordSpend for a key with an entry can always run, whatever sign calls
\* are pending.
C15_KeysIndependent ==
    /\ \A r \in Requests :
          reqs[r].pc = "awaitSign" =>
              /\ inflight[KeyOf(reqs[r].cfg)] \notin {0, r}
              /\ inflight[KeyOf(reqs[r].cfg)] \in Signing(KeyOf(reqs[r].cfg))
    /\ \A k \in Keys, a \in SpendAmounts :
          (entry[k] # NoPermit /\ Len(spends[k]) < MaxSpends) => ENABLED RecordSpend(k, a)

\* Sign calls are pending for two different keys at once.
C15_Witness ==
    \E j, k \in Keys :
        /\ j # k
        /\ inflight[j] # 0
        /\ inflight[k] # 0

RECURSIVE SumSeq(_)
SumSeq(q) == IF q = <<>> THEN 0 ELSE Head(q) + SumSeq(Tail(q))

\* C16: the ledger of a key is exactly the sum of the amounts recorded
\* against its cached permit, in whatever order and between whatever other
\* cache calls they were recorded.
C16_LedgerIsSum ==
    \A k \in Keys : ledger[k] = SumSeq(spends[k])

\* Two different amounts were recorded against one permit and the ledger is
\* their sum, the cap.
C16_Witness ==
    \E k \in Keys :
        /\ Len(spends[k]) = 2
        /\ spends[k][1] # spends[k][2]
        /\ ledger[k] = DEFAULT_PERMIT_CAP

\* A cached permit that may not be handed out any more.
Stale(k) ==
    /\ entry[k] # NoPermit
    /\ \/ (nowMs \div 1000) >= entry[k].deadline
       \/ ledger[k] >= entry[k].maxValue

\* What a getPermit call made now by a free caller for config data leaves.
AfterGetPermit(r, data) ==
    getPermit([PaymentState EXCEPT !.reqs[r] = [NewRequest EXCEPT
                   !.cfg = normalizeRouterConfig(data)]], r, nowMs)

\* C17: a getPermit call returns a cached permit only if its deadline has
\* not passed and its ledger is below maxValue; with an expired or exhausted
\* entry the caller signs (or waits for the sign call pending for the key),
\* and a successful sign call replaces the entry by a permit that is not
\* expired, with the ledger at zero, and hands that permit to its callers.
C17_GetPermitNow ==
    \A r \in Requests, data \in {"router", "empty"} :
        LET ps == AfterGetPermit(r, data)
            k == KeyOf(normalizeRouterConfig(data))
        IN /\ ps.reqs[r].pc = "second" =>
                 /\ ps.reqs[r].permit = entry[k]
                 /\ (nowMs \div 1000) < ps.reqs[r].permit.deadline
                 /\ ledger[k] < ps.reqs[r].permit.maxValue
           /\ Stale(k) =>
                 /\ ps.reqs[r].pc \in {"signing", "awaitSign"}
                 /\ inflight[k] = 0 => ps.signCalls = signCalls + 1

C17_SignStep ==
    \A k \in Keys :
        entry'[k] # entry[k] =>
            /\ entry'[k] # NoPermit
            /\ (nowMs \div 1000) < entry'[k].deadline
            /\ entry'[k].paymentSig # entry[k].paymentSig
            /\ ledger'[k] = 0
            /\ \A r \in Waiting(k) : reqs'[r].permit = entry'[k]

C18_CapNotOversubscribed ==
    \A k \in Keys : entry[k] # NoPermit => ledger[k] <= entry[k].maxValue

\* ------------------------------------------------------ router-config resolver

\* Request r holds the config its resolveRouterConfig() call returned.
Resolved(r) == reqs[r].cfg # NoConfig

\* C19: when a resolveRouterConfig() call has populated the cache with the
\* object it created, every other call that started at or after that
\* entry's timestamp and less than 30 s after it returned that same object
\* (and so fetched nothing itself), also when it started while the
\* populating call's router fetch was still pending.
C19_CacheHitIdentical ==
    \A a, b \in Requests :
        (/\ a # b
         /\ Resolved(a)
         /\ reqs[a].cfg.obj = a
         /\ Resolved(b)
         /\ reqs[b].startMs >= reqs[a].startMs
         /\ reqs[b].startMs - reqs[a].startMs < CACHE_TTL_MS)
            => reqs[b].cfg.obj = a

\* The steps of a resolveRouterConfig() call made by request r.
ResolveStarts(r) == reqs[r].pc = "first" /\ reqs'[r].pc \notin {"first", "done"}
ResolveSettles(r) == reqs[r].pc = "configFetch" /\ reqs'[r].pc # "configFetch"

\* C20: a resolveRouterConfig() call that starts with the cache empty or
\* 30 s old or older issues exactly one GET /v1/config and leaves the cache
\* as it is until the GET settles; when it settles, the cached config is the
\* object that call made (router metadata or fallback) and the cache
\* timestamp is the time that call started; the cache changes in no other
\* step.  A call that starts with a younger entry issues no GET.
C20_ResolveStep ==
    /\ \A r \in Requests :
          /\ ResolveStarts(r) =>
                IF cached = NoConfig \/ nowMs - cachedAtMs >= CACHE_TTL_MS
                THEN /\ reqs'[r].pc = "configFetch"
                     /\ reqs'[r].startMs = nowMs
                     /\ configFetches' = configFetches + 1
                     /\ UNCHANGED <<cached, cachedAtMs>>
                ELSE /\ reqs'[r].cfg = cached
                     /\ UNCHANGED <<cached, cachedAtMs, configFetches>>
          /\ ResolveSettles(r) =>
                /\ cached' \in {[normalizeRouterConfig(d) EXCEPT !.obj = r] : d \in {"router", "empty"}}
                /\ cachedAtMs' = reqs[r].startMs
                /\ reqs'[r].cfg = cached'
                /\ configFetches' = configFetches
    /\ (cached' # cached \/ cachedAtMs' # cachedAtMs) => \E r \in Requests : ResolveSettles(r)

C20_FetchThenReplace == [][C20_ResolveStep]_vars

\* The cache was populated at time 0 and, 30 s later, replaced by the config
\* and the timestamp of a second call.
C20_Witness ==
    /\ configFetches = 2
    /\ cached.obj = 2
    /\ cachedAtMs = CACHE_TTL_MS

\* ------------------------------------------------------- router failures

\* C21: when the GET /v1/config of a resolveRouterConfig() call settles with
\* a non-2xx response, a network error or an unparsable body, the call
\* returns the fallback config built from the local network and payment
\* header and caches it, and a call that starts once it is cached (here: in
\* the same millisecond) finds it fresh and returns it without contacting
\* the router.
C21_FallbackStep ==
    \A r \in Requests :
        (ResolveSettles(r) /\ cached'.asset = "") =>
            /\ reqs'[r].cfg = cached'
            /\ cached'.network = DEFAULT_NETWORK
            /\ cached'.paymentHeader = DEFAULT_PAYMENT_HEADER
            /\ resolveFresh(cached', cachedAtMs', nowMs')

C21_FallbackServedFor30s == [][C21_FallbackStep]_vars


\* ------------------------------------------------------------ permit signer

\* Text v is 0x followed by exactly n hex digits.
Is0xHex(v, n) == ~v.pad /\ v.prefix = "0x" /\ v.len = n /\ v.hex

\* The arguments of the sign() call that are malformed, by the name the
\* error gives them.
Offending ==
    LET p == signer.params
    IN (IF Is0xHex(p.privateKey, 64) THEN {} ELSE {"X402_PRIVATE_KEY"})
       \cup (IF Is0xHex(p.routerConfig.asset, 40) THEN {} ELSE {"routerConfig.asset"})
       \cup (IF Is0xHex(p.routerConfig.facilitatorSigner, 40) THEN {}
             ELSE {"routerConfig.facilitatorSigner"})

\* C22: a sign() call whose privateKey is not 0x + 64 hex digits, or whose
\* routerConfig.asset or routerConfig.facilitatorSigner is not 0x + 40 hex
\* digits, is rejected with an error that names one of the malformed
\* fields, and has made no nonce read and no signTypedData call.
C22_MalformedInputRejected ==
    (signer.pc # "idle" /\ Offending # {}) =>
        /\ signer.pc = "rejected"
        /\ signer.error.field \in Offending
        /\ signer.calls = <<>>
        /\ signer.result = NoCachedPermit

\* A call with a good key and a malformed asset address has been rejected.
C22_Witness ==
    /\ signer.pc = "rejected"
    /\ signer.error.field = "routerConfig.asset"
    /\ "X402_PRIVATE_KEY" \notin Offending
    /\ signer.calls = <<>>

\* C23: sign() returns a permit only for a router config whose payTo is
\* 0x + 40 hex digits.
C23_MalformedPayToRejected ==
    signer.pc = "returned" => Is0xHex(signer.params.routerConfig.payTo, 40)

\* C24: a sign() call reads nonces(owner) at most once and calls
\* signTypedData at most once, the read first; when the read settles the
\* call either goes on to the one signTypedData call or is rejected with
\* the read's failure, without a permit and without a further call; when
\* signTypedData settles the call either returns or is rejected with the
\* signing failure, without a permit and without a further call.
C24_SignerStep ==
    /\ signer'.calls \in {<<>>, <<"nonces">>, <<"nonces", "signTypedData">>}
    /\ (signer.pc = "nonce" /\ signer' # signer) =>
          \/ /\ signer'.pc = "signing"
             /\ signer'.calls = <<"nonces", "signTypedData">>
          \/ /\ signer'.pc = "rejected"
             /\ signer'.error.field = "nonces"
             /\ signer'.calls = <<"nonces">>
             /\ signer'.result = NoCachedPermit
    /\ (signer.pc = "signing" /\ signer' # signer) =>
          /\ signer'.calls = signer.calls
          /\ \/ signer'.pc = "returned"
             \/ /\ signer'.pc = "rejected"
                /\ signer'.error.field = "signTypedData"
                /\ signer'.result = NoCachedPermit
    /\ signer.pc \in {"returned", "rejected"} => signer' = signer

C24_OneReadOneSignature == [][C24_SignerStep]_vars

\* The nonce read of a call with well-formed arguments has failed.
C24_Witness ==
    /\ signer.pc = "rejected"
    /\ signer.error.field = "nonces"
    /\ signer.calls = <<"nonces">>

\* What C25 states about a network string: the chain id is the number after
\* "eip155:" when that suffix is a decimal number, else the id of the chain
\* resolveChain picks.
ClaimedChain(network) ==
    IF network = Net(<<"1">>) THEN mainnet
    ELSE IF network = Net(<<"8", "4", "5", "3", "2">>) THEN baseSepolia
    ELSE base

ClaimedChainId(network) ==
    LET hasPrefix == Len(network) >= 7 /\ SubSeq(network, 1, 7) = Net(<<>>)
        suffix == SubSeq(network, 8, Len(network))
        numeric == suffix # <<>> /\ \A i \in 1..Len(suffix) : IsDigit(suffix[i])
    IN IF hasPrefix /\ numeric THEN DecimalValue(suffix) ELSE ClaimedChain(network).id

\* C25: for every network string sign() uses mainnet, Base or Base Sepolia
\* for eip155:1, eip155:8453, eip155:84532 and Base otherwise, and as
\* EIP-712 chainId the number of the eip155:<id> suffix, or the chain's own
\* id when the suffix is absent or not a number.
C25_ChainAndChainId ==
    signer.pc # "idle" =>
        /\ signer.chain = ClaimedChain(signer.params.routerConfig.network)
        /\ signer.chainId = ClaimedChainId(signer.params.routerConfig.network)

\* C26: the CachedPermit sign() returns has deadline = time of signing (in
\* seconds) + 3600, maxValue = permitCap, nonce = the value read, and the
\* router config's network, asset and payTo; its paymentSig decodes to a
\* version-2 payload whose authorization carries the same value, deadline
\* and nonce.
C26_ReturnedPermit ==
    signer.pc = "returned" =>
        LET p == signer.result
            c == signer.params.routerConfig
            decoded == JSONparse(fromBase64(p.paymentSig))
            authorization == decoded.payload.authorization
        IN /\ p.deadline = (signer.signedAtMs \div 1000) + 3600
           /\ p.maxValue = signer.params.permitCap
           /\ DecimalValue(p.nonce) = signer.nonce
           /\ p.network = c.network /\ p.asset = c.asset /\ p.payTo = c.payTo
           /\ decoded.x402Version = 2
           /\ authorization.value = p.maxValue
           /\ DecimalValue(authorization.validBefore) = p.deadline
           /\ authorization.nonce = p.nonce

\* A permit signed at time 0 with nonce 7 has been returned 30 s later.
C26_Witness ==
    /\ signer.pc = "returned"
    /\ signer.signedAtMs = 0
    /\ nowMs = CACHE_TTL_MS
    /\ signer.nonce = 7
    /\ signer.result.deadline = DEFAULT_VALIDITY_SECONDS


\* --------------------------------------------------- configuration loading

\* Text t, white space around it left out, is a positive decimal integer.
PositiveDecimal(t) ==
    /\ t.chars # <<>>
    /\ \A i \in 1..Len(t.chars) : IsDigit(t.chars[i])
    /\ DecimalValue(t.chars) > 0

\* X402_PERMIT_CAP is set to a string that is not a positive decimal integer.
CapNotPositive ==
    envSource.X402_PERMIT_CAP # Undefined /\ ~PositiveDecimal(envSource.X402_PERMIT_CAP)

\* Nothing was constructed and no provider registered.
RegistrationStopped == registration.pc = "threw" /\ registration.built = <<>>

\* C27 as stated: with X402_PERMIT_CAP set to "-1", "0" or any string that
\* is not a positive decimal integer, registerX402Provider throws the error
\* about X402_PERMIT_CAP and has constructed and registered nothing.
C27_InvalidCapThrows ==
    (registration.pc # "idle" /\ CapNotPositive) =>
        /\ RegistrationStopped
        /\ registration.error.field = "X402_PERMIT_CAP"

\* The private key, white space around it left out, is 0x or 0X followed by
\* exactly 64 hex digits; the router URL is unset, blank or parses.
KeyWellFormed ==
    LET key == envSource.X402_PRIVATE_KEY
    IN key # Undefined /\ key.prefix \in {"0x", "0X"} /\ key.len = 64 /\ key.hex

UrlWellFormed ==
    LET url == envSource.X402_ROUTER_URL
    IN url = Undefined \/ url.chars = <<>> \/ url.valid

\* C27, amended: with X402_PERMIT_CAP set to a string that is not blank and
\* not a positive decimal integer, registerX402Provider throws and has
\* constructed and registered nothing; the error is the one about
\* X402_PERMIT_CAP when the private key and the router URL are well formed.
\* A blank X402_PERMIT_CAP counts as unset.
C27_NonBlankInvalidCapThrows ==
    (registration.pc # "idle" /\ CapNotPositive /\ envSource.X402_PERMIT_CAP.chars # <<>>) =>
        /\ RegistrationStopped
        /\ (KeyWellFormed /\ UrlWellFormed) => registration.error.field = "X402_PERMIT_CAP"

\* Registration with a good key and X402_PERMIT_CAP = "-1" has thrown.
C27_Witness ==
    /\ envSource.X402_PERMIT_CAP = DecText(FALSE, <<"-", "1">>)
    /\ KeyWellFormed
    /\ RegistrationStopped
    /\ registration.error.field = "X402_PERMIT_CAP"

\* The key as C28 expects it in the configuration: lowercase prefix, the
\* digits as given.
Lowercase0x(key) == [key EXCEPT !.prefix = "0x", !.pad = FALSE]

\* C28 as stated: a private key that is 0x or 0X followed by exactly 64 hex
\* digits is loaded with the prefix in lower case and the digits unchanged;
\* with any other value loading fails with an error about X402_PRIVATE_KEY.
C28_KeyNormalized ==
    registration.pc # "idle" =>
        IF KeyWellFormed /\ ~envSource.X402_PRIVATE_KEY.pad
        THEN /\ registration.pc = "registered"
             /\ registration.config.privateKey = Lowercase0x(envSource.X402_PRIVATE_KEY)
        ELSE /\ registration.pc = "threw"
             /\ registration.error.field = "X402_PRIVATE_KEY"

\* X402_PERMIT_CAP is unset, blank, or a decimal integer without sign and
\* leading zero.
CapWellFormed ==
    LET cap == envSource.X402_PERMIT_CAP
    IN cap = Undefined \/ cap.chars = <<>> \/ (PositiveDecimal(cap) /\ cap.chars[1] # "0")

\* C28, amended: a private key that, white space around it left out, is 0x
\* or 0X followed by exactly 64 hex digits is loaded, when the router URL
\* and the permit cap are accepted, as that key without the white space,
\* with the prefix in lower case and the digits unchanged, and never causes
\* an error about X402_PRIVATE_KEY; with any other value, or none, loading
\* fails with an error about X402_PRIVATE_KEY.
C28_TrimmedKeyNormalized ==
    registration.pc # "idle" =>
        IF KeyWellFormed
        THEN IF UrlWellFormed /\ CapWellFormed
             THEN /\ registration.pc = "registered"
                  /\ registration.config.privateKey = Lowercase0x(envSource.X402_PRIVATE_KEY)
             ELSE /\ registration.pc = "threw"
                  /\ registration.error.field # "X402_PRIVATE_KEY"
        ELSE /\ registration.pc = "threw"
             /\ registration.error.field = "X402_PRIVATE_KEY"

\* A key with upper-case prefix and upper-case digits has been loaded.
C28_Witness ==
    /\ registration.pc = "registered"
    /\ envSource.X402_PRIVATE_KEY.prefix = "0X"
    /\ registration.config.privateKey.prefix = "0x"
    /\ registration.config.privateKey.upper


\* ------------------------------------------------------------------ tick loop

\* C29: at most one onTick invocation is in flight; a start() or an interval
\* firing that happens while one is pending invokes nothing, and nothing is
\* invoked later on its behalf when the pending one settles; an interval
\* firing that finds none pending invokes onTick.
C29_TickStep ==
    /\ pendingTicks' <= 1
    /\ (pendingTicks > 0 /\ loopCalls' # loopCalls) =>
          /\ onTickCalls' = onTickCalls
          /\ pendingTicks' = pendingTicks
    /\ pendingTicks' < pendingTicks => onTickCalls' = onTickCalls
    /\ ((\E id \in liveTimers, run \in OnTickRuns : IntervalFires(id, run))
          /\ pendingTicks = 0) =>
          onTickCalls' = onTickCalls + 1

C29_OneTickInFlight == [][C29_TickStep]_vars

\* start() invoked onTick, one interval firing was skipped while it was
\* pending, it settled, and the next firing invoked onTick again.
C29_Witness ==
    /\ loopCalls = 3
    /\ skippedTicks = 1
    /\ count = 1
    /\ onTickCalls = 2
    /\ pendingTicks = 1
    /\ running

\* C30: a stop() call leaves isRunning false and no interval live, and while
\* isRunning is false nothing but a start() call invokes onTick, however
\* many steps are taken.
C30_StopStep ==
    /\ Stop => (~running' /\ liveTimers' = {})
    /\ (~running /\ onTickCalls' # onTickCalls) => \E run \in OnTickRuns : Start(run)

C30_StoppedStaysQuiet == [][C30_StopStep]_vars

\* C31: a start() call made while isRunning is true changes nothing: it
\* invokes no onTick, skips none, and sets no interval, so the number of
\* live intervals is what it was.
C31_StartStep ==
    ((\E run \in OnTickRuns : Start(run)) /\ running) =>
        /\ UNCHANGED <<timer, liveTimers, timersMade, running, ticking>>
        /\ UNCHANGED <<count, pendingTicks, onTickCalls, skippedTicks, onErrorCalls>>

C31_StartWhileRunningNoOp == [][C31_StartStep]_vars

\* start() was called twice in a row: one onTick invocation, one interval.
C31_Witness ==
    /\ loopCalls = 2
    /\ running
    /\ timersMade = 1
    /\ liveTimers = {1}
    /\ onTickCalls = 1
    /\ skippedTicks = 0

\* C32: tickCount is the number of onTick invocations that have completed
\* without throwing (those invoked, less those pending and those that
\* failed); it goes up by one when an onTick promise fulfils and changes in
\* no other step, in particular not when one rejects, throws, or is skipped.
C32_CountStep ==
    /\ count + onErrorCalls + pendingTicks = onTickCalls
    /\ OnTickSettles(Nothing) => count' = count + 1
    /\ (\E t \in Thrown : OnTickSettles(t)) => count' = count
    /\ pendingTicks' >= pendingTicks => count' = count

C32_CountsCompletedTicks == [][C32_CountStep]_vars

\* One onTick has fulfilled, one has failed, and one firing was skipped.
C32_Witness ==
    /\ count = 1
    /\ onErrorCalls = 1
    /\ skippedTicks = 1
    /\ onTickCalls = 2

\* onError received err, as an Error.
Reported(err) ==
    /\ onErrorCalls' = onErrorCalls + 1
    /\ lastError'.isError
    /\ lastError'.text = err.text

\* C33: when an onTick invocation throws or its promise rejects, onError
\* is called once, with the error as an Error; isRunning is what it was
\* (true after start()) unless that onTick called stop(); the mutex is
\* free again, so the next firing invokes onTick.  onError is called in no
\* other step.
C33_ErrorStep ==
    /\ \A run \in OnTickRuns :
          (run.thrown # Nothing /\ ~ticking) =>
              /\ (\E id \in liveTimers : IntervalFires(id, run)) =>
                    /\ Reported(run.thrown)
                    /\ ~ticking'
                    /\ ~run.stop => running' = running
              /\ (Start(run) /\ ~running) =>
                    /\ Reported(run.thrown)
                    /\ ~ticking'
                    /\ ~run.stop => running'
    /\ \A t \in Thrown :
          OnTickSettles(t) => (Reported(t) /\ ~ticking' /\ running' = running)
    /\ onErrorCalls' # onErrorCalls =>
          /\ onErrorCalls' = onErrorCalls + 1
          /\ onTickCalls' + pendingTicks' = onTickCalls + pendingTicks + 1
             \/ pendingTicks' = pendingTicks - 1

C33_ErrorReportedLoopContinues == [][C33_ErrorStep]_vars

\* The first onTick failed and was reported; the loop is still running and
\* a later firing has invoked onTick again.
C33_Witness ==
    /\ onErrorCalls = 1
    /\ lastError.isError
    /\ count = 0
    /\ running
    /\ onTickCalls = 2
    /\ pendingTicks = 1
    /\ skippedTicks = 0

\* C34 as stated: start() on a stopped loop sets isRunning to true and
\* invokes onTick at once; afterwards every interval firing with the loop
\* running and no tick in flight invokes onTick.
C34_StartStepAsStated ==
    /\ ((\E run \in OnTickRuns : Start(run)) /\ ~running) =>
          /\ running'
          /\ onTickCalls' = onTickCalls + 1
    /\ ((\E id \in liveTimers, run \in OnTickRuns : IntervalFires(id, run))
          /\ running /\ pendingTicks = 0) =>
          onTickCalls' = onTickCalls + 1

C34_StartInvokesAtOnce == [][C34_StartStepAsStated]_vars

\* C34, amended: start() on a stopped loop sets one new interval and, when
\* no onTick is in flight, invokes onTick at once (with one in flight the
\* immediate tick is skipped); isRunning is true afterwards unless that
\* onTick called stop(); every interval firing that finds no tick in
\* flight invokes onTick.
C34_StartStep ==
    /\ \A run \in OnTickRuns :
          (Start(run) /\ ~running) =>
              /\ timersMade' = timersMade + 1
              /\ timer' = [id |-> timersMade']
              /\ liveTimers' \ liveTimers = {timersMade'}
              /\ IF pendingTicks = 0
                 THEN /\ onTickCalls' = onTickCalls + 1
                      /\ running' = ~run.stop
                 ELSE /\ onTickCalls' = onTickCalls
                      /\ skippedTicks' = skippedTicks + 1
                      /\ running'
    /\ ((\E id \in liveTimers, run \in OnTickRuns : IntervalFires(id, run))
          /\ pendingTicks = 0) =>
          onTickCalls' = onTickCalls + 1

C34_StartInvokesWhenIdle == [][C34_StartStep]_vars

\* start() on the fresh loop has invoked onTick and set the interval, and
\* the first firing after that onTick settled has invoked it again.
C34_Witness ==
    /\ loopCalls = 2
    /\ running
    /\ liveTimers = {1}
    /\ count = 1
    /\ onTickCalls = 2
    /\ skippedTicks = 0
    /\ onErrorCalls = 0

\* C38: an interval is live exactly when isRunning is true, and at most one
\* is.
C38_TimerIffRunning ==
    /\ running <=> liveTimers # {}
    /\ Cardinality(liveTimers) <= 1


\* C35: the active-caller count is the number of handles acquired and not
\* yet released, it is never negative, and an original fetch is held
\* exactly while the count is greater than 0.
C35_CountAndOriginal ==
    /\ activeStreams = Cardinality(Live)
    /\ activeStreams >= 0
    /\ originalFetch # Null <=> activeStreams > 0

\* One handle was released twice while another is still held.
C35_Witness ==
    /\ activeStreams = 1
    /\ originalFetch # Null
    /\ \E h \in Handles : released[h] = "true" /\ relCalls[h] = 2


\* C36: with two fetch installers, once every handle of both has been
\* released the process-wide fetch is the one that was in place before the
\* first acquire; neither installer's fetch stays installed.
C36_BothReleasedRestored ==
    (Live = {} /\ activeStreams = 0 /\ foreignSaved = Null) =>
        globalFetch = NativeFetch


\* C37: the router-config cache timestamp never moves backwards.
C37_TimestampStep == cachedAtMs' >= cachedAtMs

C37_TimestampMonotone == [][C37_TimestampStep]_vars


\* C39: a private key that configuration loading accepted is accepted by
\* the signer's own validation: a sign call made with the loaded
\* configuration is given the loaded key and is not rejected for
\* X402_PRIVATE_KEY.
C39_LoadedKeyAcceptedBySigner ==
    (registration.pc = "registered" /\ signer.pc # "idle") =>
        /\ signer.params.privateKey = registration.config.privateKey
        /\ signer.error.field # "X402_PRIVATE_KEY"
        /\ signer.pc = "nonce"

\* A key given with the prefix 0X was loaded and the signer has gone on to
\* read the nonce.
C39_Witness ==
    /\ registration.pc = "registered"
    /\ envSource.X402_PRIVATE_KEY.prefix = "0X"
    /\ signer.pc = "nonce"
    /\ signer.calls = <<"nonces">>


====
